---- MODULE Spec2Model ----
(***************************************************************************)
(* A model of the static-analysis pipeline of the repository:              *)
(*   - chunkCodebase (src/src/mcp/openaiClient.ts), the context chunker;   *)
(*   - analyzeProject and listFilesRecursively (projectAnalyzer);          *)
(*   - ParserRegistry and the canHandle predicates of the three parsers;   *)
(*   - analyzeCode (codeAnalyzer/index.ts);                                *)
(*   - validateResponseStructure and analyzeChunkedCodebase (openaiClient);*)
(*   - parseFile of TypeScriptParser and YAMLParser.                       *)
(* Strings are TLA+ strings, so JSON.stringify, String.length and          *)
(* String.endsWith are computed on the text itself.                        *)
(***************************************************************************)
EXTENDS Integers, Sequences, FiniteSets, TLC

VARIABLES
    \* ---- chunkCodebase(context, maxChunkSize) ----
    context,         \* the argument `context`
    maxChunkSize,    \* the argument `maxChunkSize`
    pc,              \* position inside chunkCodebase
    chunks,          \* const chunks: any[]
    functionChunks,  \* const functionChunks: any[][]
    classChunks,     \* const classChunks: any[][]
    currentChunk,    \* let currentChunk (of the block being executed)
    currentSize,     \* let currentSize (of the block being executed)
    idx,             \* position of the for-of loop being executed
    result,          \* the value chunkCodebase returned
    \* ---- analyzeProject(folder), ParserRegistry, the disk ----
    tree,            \* the entries of the directory /p on disk
    parsers,         \* ParserRegistry.parsers
    registered,      \* the arguments of the registerParser calls, in call order
    apc,             \* position inside analyzeProject
    resolvedPath,    \* const resolvedPath
    files,           \* const files = listFilesRecursively(resolvedPath)
    codeFiles,       \* const codeFiles
    fileIdx,         \* position of for (const file of codeFiles)
    currentParser,   \* const parser, while parser.parseFile(file) is awaited
    analysisResult,  \* const analysisResult
    errorLog,        \* the logger.error calls of the catch block, in order
    parseLog,        \* the settled parser.parseFile calls, in order
    outcome,         \* how the call ended: the value returned or the error thrown
    lookedUp,        \* the last getParserForFile call made by a client of the registry
    folder,          \* the argument `folder`, as the caller passed it
    scanned,         \* the directories fs.readdirSync was called on, in call order
    inFlight,        \* positions in codeFiles whose parseFile promise is pending
    \* ---- analyzeCode({ code, filePath }) ----
    code,            \* the argument `code`, as the declarations ts-morph finds in it
    codePath,        \* the argument `filePath`
    cpc,             \* position inside analyzeCode
    codeResult,      \* const result, and the value returned
    \* ---- validateResponseStructure(response, responseFormat) in sendQuery ----
    response,        \* const parsedResponse
    responseFormat,  \* the responseFormat of the query
    vpc,             \* position inside the tail of sendQuery
    validated,       \* how sendQuery ended: the value returned or the error thrown
    \* ---- parser.parseFile(filePath) of TypeScriptParser and YAMLParser ----
    parseFileArg,    \* the parser, the path and what the file holds
    ppc,             \* position inside parseFile
    parseFileResult, \* how the promise settled
    \* ---- analyzeChunkedCodebase(context) ----
    qpc,             \* position inside analyzeChunkedCodebase
    queryLog,        \* the sendQuery calls, in call order, with how each settled
    componentAnalyses, \* const componentAnalyses
    qi,              \* let i of the loop over chunks
    queryOutcome     \* how the call ended

chunkVars == <<context, maxChunkSize, pc, chunks, functionChunks, classChunks,
               currentChunk, currentSize, idx, result>>

projectVars == <<tree, parsers, registered, apc, resolvedPath, files, codeFiles,
                 fileIdx, currentParser, analysisResult, errorLog, parseLog, outcome,
                 lookedUp, folder, scanned, inFlight>>

analyzeVars == <<code, codePath, cpc, codeResult>>

validateVars == <<response, responseFormat, vpc, validated>>

parseFileVars == <<parseFileArg, ppc, parseFileResult>>

queryVars == <<qpc, queryLog, componentAnalyses, qi, queryOutcome>>

restVars == <<validateVars, parseFileVars, queryVars>>

vars == <<chunkVars, projectVars, analyzeVars, restVars>>

(***************************************************************************)
(* Bounds of the model.                                                    *)
(***************************************************************************)
\* functions + classes + methods of one input context
MaxEntities == 5
\* files and directories below the root directory
MaxNodes == 3
\* calls of ParserRegistry.registerParser
MaxRegistrations == 2
\* functions and classes declared in one source text
MaxDeclarations == 2
\* items of one list of a parsed response
MaxItems == 1
\* top-level statements of one TypeScript file
MaxStatements == 3

(***************************************************************************)
(* Small helpers on sequences.                                             *)
(***************************************************************************)
SeqsUpTo(S, n) == UNION {[1..k -> S] : k \in 0..n}

RECURSIVE Flatten(_)
Flatten(ss) == IF ss = <<>> THEN <<>> ELSE Head(ss) \o Flatten(Tail(ss))

RECURSIVE Join(_)
\* Array elements separated by commas, as JSON.stringify writes an array.
Join(strs) ==
    IF strs = <<>> THEN ""
    ELSE IF Len(strs) = 1 THEN strs[1]
    ELSE strs[1] \o "," \o Join(Tail(strs))

(***************************************************************************)
(* JSON.stringify of the entities of src/src/codeAnalyzer/types.ts.        *)
(* Keys are written in insertion order; the strings of the model hold no   *)
(* character that JSON escapes.                                            *)
(***************************************************************************)
JsonString(s) == "\"" \o s \o "\""

JsonArray(strs) == "[" \o Join(strs) \o "]"

JsonParameter(p) ==
    "{\"name\":" \o JsonString(p.name) \o ",\"type\":" \o JsonString(p.type) \o "}"

JsonParameters(ps) == JsonArray([i \in 1..Len(ps) |-> JsonParameter(ps[i])])

JsonLocation(l) ==
    "{\"file\":" \o JsonString(l.file)
        \o ",\"startLine\":" \o ToString(l.startLine)
        \o ",\"endLine\":" \o ToString(l.endLine) \o "}"

\* FunctionAnalysis as tsParser's getFunctions builds it.
JsonFunction(f) ==
    "{\"name\":" \o JsonString(f.name)
        \o ",\"parameters\":" \o JsonParameters(f.parameters)
        \o ",\"returnType\":" \o JsonString(f.returnType)
        \o ",\"body\":" \o JsonString(f.body)
        \o ",\"documentation\":" \o JsonString(f.documentation)
        \o ",\"location\":" \o JsonLocation(f.location) \o "}"

\* ClassMethod as tsParser's getClasses builds it (no location).
JsonMethod(m) ==
    "{\"name\":" \o JsonString(m.name)
        \o ",\"parameters\":" \o JsonParameters(m.parameters)
        \o ",\"returnType\":" \o JsonString(m.returnType)
        \o ",\"body\":" \o JsonString(m.body)
        \o ",\"documentation\":" \o JsonString(m.documentation) \o "}"

JsonProperty(p) ==
    "{\"name\":" \o JsonString(p.name)
        \o ",\"type\":" \o JsonString(p.type)
        \o ",\"documentation\":" \o JsonString(p.documentation) \o "}"

\* ClassAnalysis, or a partial class { ...cls, methods, note }: the spread
\* keeps the keys of cls in place and `note` is a new key, written last.
JsonClass(c) ==
    "{\"name\":" \o JsonString(c.name)
        \o ",\"methods\":"
        \o JsonArray([i \in 1..Len(c.methods) |-> JsonMethod(c.methods[i])])
        \o ",\"properties\":"
        \o JsonArray([i \in 1..Len(c.properties) |-> JsonProperty(c.properties[i])])
        \o ",\"documentation\":" \o JsonString(c.documentation)
        \o ",\"location\":" \o JsonLocation(c.location)
        \o (IF "note" \in DOMAIN c THEN ",\"note\":" \o JsonString(c.note) ELSE "")
        \o "}"

HasFunctions(ctx) == "functions" \in DOMAIN ctx
HasClasses(ctx) == "classes" \in DOMAIN ctx

\* The functions (classes) array of a context or chunk, empty when absent.
FunctionsOf(ctx) == IF HasFunctions(ctx) THEN ctx.functions ELSE <<>>
ClassesOf(ctx) == IF HasClasses(ctx) THEN ctx.classes ELSE <<>>

\* JSON.stringify of a context or of a chunk { ...context, functions: funcs }.
JsonContext(ctx) ==
    LET fs == IF HasFunctions(ctx)
              THEN <<"\"functions\":"
                     \o JsonArray([i \in 1..Len(ctx.functions) |->
                                      JsonFunction(ctx.functions[i])])>>
              ELSE <<>>
        cs == IF HasClasses(ctx)
              THEN <<"\"classes\":"
                     \o JsonArray([i \in 1..Len(ctx.classes) |->
                                      JsonClass(ctx.classes[i])])>>
              ELSE <<>>
    IN  "{" \o Join(fs \o cs) \o "}"

\* const estimateTokens = (str) => Math.ceil(str.length / 4)
estimateTokens(str) == (Len(str) + 3) \div 4

funcTokens(func) == estimateTokens(JsonFunction(func))
methodTokens(method) == estimateTokens(JsonMethod(method))
clsTokens(cls) == estimateTokens(JsonClass(cls))

(***************************************************************************)
(* The inputs: entities as the TypeScript parser produces them.            *)
(***************************************************************************)
LongBody ==
    "{ const total = items.reduce((sum, item) => sum + item.price * item.count, 0); return total; }"

FuncSmall ==
    [name |-> "f", parameters |-> <<>>, returnType |-> "void", body |-> "{}",
     documentation |-> "",
     location |-> [file |-> "a.ts", startLine |-> 1, endLine |-> 1]]

FuncLarge ==
    [name |-> "g", parameters |-> <<[name |-> "items", type |-> "any"]>>,
     returnType |-> "number", body |-> LongBody, documentation |-> "",
     location |-> [file |-> "a.ts", startLine |-> 3, endLine |-> 5]]

FuncPool == {FuncSmall, FuncLarge}

MethodSmall ==
    [name |-> "m", parameters |-> <<>>, returnType |-> "void", body |-> "{}",
     documentation |-> ""]

MethodLarge ==
    [name |-> "n", parameters |-> <<[name |-> "items", type |-> "any"]>>,
     returnType |-> "number", body |-> LongBody, documentation |-> ""]

MethodPool == {MethodSmall, MethodLarge}

MkClass(methods) ==
    [name |-> "C", methods |-> methods, properties |-> <<>>,
     documentation |-> "",
     location |-> [file |-> "a.ts", startLine |-> 7, endLine |-> 9]]

\* An entity counts one; a class counts one more for each of its methods.
Weight(cls) == 1 + Len(cls.methods)

ClassesUpTo(n) ==
    IF n < 1 THEN {} ELSE {MkClass(ms) : ms \in SeqsUpTo(MethodPool, n - 1)}

RECURSIVE ClassSeqs(_)
ClassSeqs(n) ==
    {<<>>} \cup
    UNION {{<<c>> \o rest : rest \in ClassSeqs(n - Weight(c))} : c \in ClassesUpTo(n)}

Contexts ==
    UNION {
        LET fss == [1..k -> FuncPool]
            css == ClassSeqs(MaxEntities - k)
        IN  {[functions |-> fs, classes |-> cs] : fs \in fss, cs \in css}
            \cup {[functions |-> fs] : fs \in fss}
            \cup {[classes |-> cs] : cs \in css}
        : k \in 0..MaxEntities}

\* Budgets around the sizes of the entities above (33 and 64 for the
\* functions, 20 and 51 for the methods, 29 for a class without methods).
Budgets == {1, 30, 40, 50, 70, 200}

(***************************************************************************)
(* chunkCodebase, src/src/mcp/openaiClient.ts:416-533.                      *)
(***************************************************************************)
TruncatedBody == "/* Body too large, truncated */"

\* A copy with the body emptied.
funcWithEmptyBody(func) == [func EXCEPT !.body = ""]

\* const funcWithoutBody = { ...func, body: "/* Body too large, truncated */" }
funcWithoutBody(func) == [func EXCEPT !.body = TruncatedBody]

\* A method loop without the size test: all the methods stay in one group.
PackMethodsNoSplit(methods, i, currentMethods, methodSize, methodChunks) ==
    IF Len(methods) > 0 THEN <<methods>> ELSE <<>>

RECURSIVE PackMethodsLossy(_, _, _, _, _)
\* A method loop that opens the next group empty: the method that did not
\* fit is lost.
PackMethodsLossy(methods, i, currentMethods, methodSize, methodChunks) ==
    IF i > Len(methods)
    THEN IF Len(currentMethods) > 0
         THEN Append(methodChunks, currentMethods)
         ELSE methodChunks
    ELSE LET tokens == methodTokens(methods[i])
         IN  IF methodSize + tokens > maxChunkSize
             THEN PackMethodsLossy(methods, i + 1, <<>>, 0,
                                   Append(methodChunks, currentMethods))
             ELSE PackMethodsLossy(methods, i + 1, Append(currentMethods, methods[i]),
                                   methodSize + tokens, methodChunks)

RECURSIVE PackMethodsLateClose(_, _, _, _, _)
\* A method loop that tests the running size alone, without the size of the
\* method to add.
PackMethodsLateClose(methods, i, currentMethods, methodSize, methodChunks) ==
    IF i > Len(methods)
    THEN IF Len(currentMethods) > 0
         THEN Append(methodChunks, currentMethods)
         ELSE methodChunks
    ELSE LET tokens == methodTokens(methods[i])
         IN  IF methodSize > maxChunkSize
             THEN PackMethodsLateClose(methods, i + 1, <<methods[i]>>, tokens,
                                       Append(methodChunks, currentMethods))
             ELSE PackMethodsLateClose(methods, i + 1,
                                       Append(currentMethods, methods[i]),
                                       methodSize + tokens, methodChunks)

\* The loop over cls.methods (lines 483-495): the method groups of one class.
RECURSIVE PackMethods(_, _, _, _, _)
PackMethods(methods, i, currentMethods, methodSize, methodChunks) ==
    IF i > Len(methods)
    THEN IF Len(currentMethods) > 0
         THEN Append(methodChunks, currentMethods)
         ELSE methodChunks
    ELSE LET tokens == methodTokens(methods[i])
         IN  IF methodSize + tokens > maxChunkSize
             THEN PackMethods(methods, i + 1, <<methods[i]>>, tokens,
                              Append(methodChunks, currentMethods))
             ELSE PackMethods(methods, i + 1, Append(currentMethods, methods[i]),
                              methodSize + tokens, methodChunks)

\* The annotation with the 0-based index of forEach.
NoteOfZeroBased(i, n) ==
    "Part " \o ToString(i - 1) \o "/" \o ToString(n) \o " of large class"

NoteOf(i, n) == "Part " \o ToString(i) \o "/" \o ToString(n) \o " of large class"

\* const partialClass = { ...cls, methods, note: `Part ${idx + 1}/${n} of large class` }
partialClass(cls, methods, i, n) ==
    [k \in DOMAIN cls \cup {"note"} |->
        IF k = "methods" THEN methods
        ELSE IF k = "note" THEN NoteOf(i, n)
        ELSE cls[k]]

\* methodChunks.forEach((methods, idx) => currentChunk.push(partialClass))
PartialClasses(cls) ==
    LET methodChunks == PackMethods(cls.methods, 1, <<>>, 0, <<>>)
    IN  [i \in 1..Len(methodChunks) |->
            partialClass(cls, methodChunks[i], i, Len(methodChunks))]

\* functionChunks.map(funcs => ({ ...context, functions: funcs }))
WithFunctions(ctx, funcs) == [ctx EXCEPT !.functions = funcs]

\* classChunks.map(classes => ({ ...context, classes }))
WithClasses(ctx, classes) == [ctx EXCEPT !.classes = classes]

\* A return without the fallback to [context].
ReturnValueNoFallback(chs, ctx) == chs

\* return chunks.length > 0 ? chunks : [context]
ReturnValue(chs, ctx) == IF Len(chs) > 0 THEN chs ELSE <<ctx>>

\* The state when chunkCodebase(context, maxChunkSize) is entered.
ChunkCall ==
    /\ context \in Contexts
    /\ maxChunkSize \in Budgets
    /\ pc = "functions"
    /\ chunks = <<>>
    /\ functionChunks = <<>>
    /\ classChunks = <<>>
    /\ currentChunk = <<>>
    /\ currentSize = 0
    /\ idx = 1
    /\ result = <<>>

\* if (context.functions && Array.isArray(context.functions)) { ... }
EnterFunctions ==
    /\ UNCHANGED <<projectVars, analyzeVars, restVars>>
    /\ pc = "functions"
    /\ HasFunctions(context)
    /\ functionChunks' = <<>>
    /\ currentChunk' = <<>>
    /\ currentSize' = 0
    /\ idx' = 1
    /\ pc' = "functionLoop"
    /\ UNCHANGED <<context, maxChunkSize, chunks, classChunks, result>>

SkipFunctions ==
    /\ UNCHANGED <<projectVars, analyzeVars, restVars>>
    /\ pc = "functions"
    /\ ~HasFunctions(context)
    /\ pc' = "classes"
    /\ UNCHANGED <<context, maxChunkSize, chunks, functionChunks, classChunks,
                   currentChunk, currentSize, idx, result>>

\* An iteration that truncates the body of an oversized function in place
\* (func.body = "...") where the code copies the function.
FunctionIterationInPlace ==
    /\ UNCHANGED <<projectVars, analyzeVars, restVars>>
    /\ pc = "functionLoop"
    /\ idx <= Len(context.functions)
    /\ LET func == context.functions[idx]
           tokens == funcTokens(func)
       IN  IF tokens > maxChunkSize
           THEN /\ context' = [context EXCEPT !.functions[idx].body = TruncatedBody]
                /\ currentChunk' = Append(currentChunk, funcWithoutBody(func))
                /\ UNCHANGED <<currentSize, functionChunks>>
           ELSE IF currentSize + tokens > maxChunkSize /\ Len(currentChunk) > 0
           THEN /\ functionChunks' = Append(functionChunks, currentChunk)
                /\ currentChunk' = <<func>>
                /\ currentSize' = tokens
                /\ UNCHANGED context
           ELSE /\ currentChunk' = Append(currentChunk, func)
                /\ currentSize' = currentSize + tokens
                /\ UNCHANGED <<functionChunks, context>>
    /\ idx' = idx + 1
    /\ UNCHANGED <<maxChunkSize, pc, chunks, classChunks, result>>

\* An iteration whose test for closing the chunk leaves out the size of the
\* function to add.
FunctionIterationNoClose ==
    /\ UNCHANGED <<projectVars, analyzeVars, restVars>>
    /\ pc = "functionLoop"
    /\ idx <= Len(context.functions)
    /\ LET func == context.functions[idx]
           tokens == funcTokens(func)
       IN  IF tokens > maxChunkSize
           THEN /\ currentChunk' = Append(currentChunk, funcWithoutBody(func))
                /\ UNCHANGED <<currentSize, functionChunks>>
           ELSE IF currentSize > maxChunkSize /\ Len(currentChunk) > 0
           THEN /\ functionChunks' = Append(functionChunks, currentChunk)
                /\ currentChunk' = <<func>>
                /\ currentSize' = tokens
           ELSE /\ currentChunk' = Append(currentChunk, func)
                /\ currentSize' = currentSize + tokens
                /\ UNCHANGED functionChunks
    /\ idx' = idx + 1
    /\ UNCHANGED <<context, maxChunkSize, pc, chunks, classChunks, result>>

\* An iteration that closes the chunk without resetting currentSize.
FunctionIterationNoReset ==
    /\ UNCHANGED <<projectVars, analyzeVars, restVars>>
    /\ pc = "functionLoop"
    /\ idx <= Len(context.functions)
    /\ LET func == context.functions[idx]
           tokens == funcTokens(func)
       IN  IF tokens > maxChunkSize
           THEN /\ currentChunk' = Append(currentChunk, funcWithoutBody(func))
                /\ UNCHANGED <<currentSize, functionChunks>>
           ELSE IF currentSize + tokens > maxChunkSize /\ Len(currentChunk) > 0
           THEN /\ functionChunks' = Append(functionChunks, currentChunk)
                /\ currentChunk' = <<func>>
                /\ currentSize' = currentSize + tokens
           ELSE /\ currentChunk' = Append(currentChunk, func)
                /\ currentSize' = currentSize + tokens
                /\ UNCHANGED functionChunks
    /\ idx' = idx + 1
    /\ UNCHANGED <<context, maxChunkSize, pc, chunks, classChunks, result>>

\* One iteration of for (const func of context.functions), lines 431-455.
FunctionIteration ==
    /\ UNCHANGED <<projectVars, analyzeVars, restVars>>
    /\ pc = "functionLoop"
    /\ idx <= Len(context.functions)
    /\ LET func == context.functions[idx]
           tokens == funcTokens(func)
       IN  IF tokens > maxChunkSize
           THEN /\ currentChunk' = Append(currentChunk, funcWithoutBody(func))
                /\ UNCHANGED <<currentSize, functionChunks>>
           ELSE IF currentSize + tokens > maxChunkSize /\ Len(currentChunk) > 0
           THEN /\ functionChunks' = Append(functionChunks, currentChunk)
                /\ currentChunk' = <<func>>
                /\ currentSize' = tokens
           ELSE /\ currentChunk' = Append(currentChunk, func)
                /\ currentSize' = currentSize + tokens
                /\ UNCHANGED functionChunks
    /\ idx' = idx + 1
    /\ UNCHANGED <<context, maxChunkSize, pc, chunks, classChunks, result>>

\* After the loop: the final function chunk, then chunks.push(...), lines 456-461.
FunctionsDone ==
    /\ UNCHANGED <<projectVars, analyzeVars, restVars>>
    /\ pc = "functionLoop"
    /\ idx > Len(context.functions)
    /\ LET final == IF Len(currentChunk) > 0
                    THEN Append(functionChunks, currentChunk)
                    ELSE functionChunks
       IN  /\ functionChunks' = final
           /\ chunks' = chunks \o [i \in 1..Len(final) |->
                                      WithFunctions(context, final[i])]
    /\ pc' = "classes"
    /\ UNCHANGED <<context, maxChunkSize, classChunks, currentChunk, currentSize,
                   idx, result>>

\* if (context.classes && Array.isArray(context.classes)) { ... }
EnterClasses ==
    /\ UNCHANGED <<projectVars, analyzeVars, restVars>>
    /\ pc = "classes"
    /\ HasClasses(context)
    /\ classChunks' = <<>>
    /\ currentChunk' = <<>>
    /\ currentSize' = 0
    /\ idx' = 1
    /\ pc' = "classLoop"
    /\ UNCHANGED <<context, maxChunkSize, chunks, functionChunks, result>>

SkipClasses ==
    /\ UNCHANGED <<projectVars, analyzeVars, restVars>>
    /\ pc = "classes"
    /\ ~HasClasses(context)
    /\ pc' = "return"
    /\ UNCHANGED <<context, maxChunkSize, chunks, functionChunks, classChunks,
                   currentChunk, currentSize, idx, result>>

\* One iteration of for (const cls of context.classes), lines 470-517.
ClassIteration ==
    /\ UNCHANGED <<projectVars, analyzeVars, restVars>>
    /\ pc = "classLoop"
    /\ idx <= Len(context.classes)
    /\ LET cls == context.classes[idx]
           tokens == clsTokens(cls)
       IN  IF tokens > maxChunkSize
           THEN /\ currentChunk' = currentChunk \o PartialClasses(cls)
                /\ UNCHANGED <<currentSize, classChunks>>
           ELSE IF currentSize + tokens > maxChunkSize /\ Len(currentChunk) > 0
           THEN /\ classChunks' = Append(classChunks, currentChunk)
                /\ currentChunk' = <<cls>>
                /\ currentSize' = tokens
           ELSE /\ currentChunk' = Append(currentChunk, cls)
                /\ currentSize' = currentSize + tokens
                /\ UNCHANGED classChunks
    /\ idx' = idx + 1
    /\ UNCHANGED <<context, maxChunkSize, pc, chunks, functionChunks, result>>

\* After the loop: the final class chunk, then chunks.push(...), lines 518-523.
ClassesDone ==
    /\ UNCHANGED <<projectVars, analyzeVars, restVars>>
    /\ pc = "classLoop"
    /\ idx > Len(context.classes)
    /\ LET final == IF Len(currentChunk) > 0
                    THEN Append(classChunks, currentChunk)
                    ELSE classChunks
       IN  /\ classChunks' = final
           /\ chunks' = chunks \o [i \in 1..Len(final) |->
                                      WithClasses(context, final[i])]
    /\ pc' = "return"
    /\ UNCHANGED <<context, maxChunkSize, functionChunks, currentChunk, currentSize,
                   idx, result>>

\* return chunks.length > 0 ? chunks : [context]
Return ==
    /\ UNCHANGED <<projectVars, analyzeVars, restVars>>
    /\ pc = "return"
    /\ result' = ReturnValue(chunks, context)
    /\ pc' = "done"
    /\ UNCHANGED <<context, maxChunkSize, chunks, functionChunks, classChunks,
                   currentChunk, currentSize, idx>>

ChunkNext ==
    \/ EnterFunctions
    \/ SkipFunctions
    \/ FunctionIteration
    \/ FunctionsDone
    \/ EnterClasses
    \/ SkipClasses
    \/ ClassIteration
    \/ ClassesDone
    \/ Return

\* chunkCodebase is not running.
ChunkAtRest ==
    /\ context = [functions |-> <<>>, classes |-> <<>>]
    /\ maxChunkSize = 1
    /\ pc = "done"
    /\ chunks = <<>>
    /\ functionChunks = <<>>
    /\ classChunks = <<>>
    /\ currentChunk = <<>>
    /\ currentSize = 0
    /\ idx = 1
    /\ result = <<>>

(***************************************************************************)
(* Strings: String.endsWith, String.trim, path.normalize, path.join.       *)
(***************************************************************************)
CharAt(s, i) == SubSeq(s, i, i)

\* filePath.endsWith(suffix)
EndsWith(s, suffix) ==
    /\ Len(s) >= Len(suffix)
    /\ SubSeq(s, Len(s) - Len(suffix) + 1, Len(s)) = suffix

RECURSIVE TrimStart(_)
TrimStart(s) ==
    IF Len(s) > 0 /\ CharAt(s, 1) = " " THEN TrimStart(SubSeq(s, 2, Len(s))) ELSE s

RECURSIVE TrimEnd(_)
TrimEnd(s) ==
    IF Len(s) > 0 /\ CharAt(s, Len(s)) = " "
    THEN TrimEnd(SubSeq(s, 1, Len(s) - 1))
    ELSE s

\* folder.trim()
Trim(s) == TrimEnd(TrimStart(s))

RECURSIVE Normalize(_)
\* path.normalize on paths without "." and ".." segments: runs of "/" collapse.
Normalize(s) ==
    IF Len(s) < 2 THEN s
    ELSE IF CharAt(s, 1) = "/" /\ CharAt(s, 2) = "/"
    THEN Normalize(SubSeq(s, 2, Len(s)))
    ELSE CharAt(s, 1) \o Normalize(SubSeq(s, 2, Len(s)))

\* path.join(dirPath, file)
PathJoin(dirPath, file) == Normalize(dirPath \o "/" \o file)

(***************************************************************************)
(* The parsers and ParserRegistry (languageParsers/ParserRegistry.ts).     *)
(* A parser is its name and the suffixes its canHandle accepts.            *)
(***************************************************************************)
TypeScriptParser == [name |-> "TypeScriptParser", suffixes |-> {".ts", ".tsx"}]
BabelParser == [name |-> "BabelParser", suffixes |-> {".js", ".jsx"}]
YAMLParser == [name |-> "YAMLParser", suffixes |-> {".yml", ".yaml"}]

\* private static parsers = [new TypeScriptParser(), new BabelParser(), new YAMLParser()]
InitialParsers == <<TypeScriptParser, BabelParser, YAMLParser>>

\* Parsers a caller may add with registerParser: one for a new extension,
\* one that overlaps the TypeScript parser and one that accepts every path.
MarkdownParser == [name |-> "MarkdownParser", suffixes |-> {".md"}]
LegacyTsParser == [name |-> "LegacyTsParser", suffixes |-> {".ts", ".mts"}]
FallbackParser == [name |-> "FallbackParser", suffixes |-> {""}]
CustomParsers == {MarkdownParser, LegacyTsParser, FallbackParser}

\* What getParserForFile returns when no parser matches.
Undefined == [name |-> "undefined", suffixes |-> {}]

\* parser.canHandle(filePath)
canHandle(parser, filePath) == \E suffix \in parser.suffixes : EndsWith(filePath, suffix)

RECURSIVE FindLast(_, _, _)
\* A search from the end of the array (Array.prototype.findLast).
FindLast(ps, i, filePath) ==
    IF i < 1 THEN Undefined
    ELSE IF canHandle(ps[i], filePath) THEN ps[i]
    ELSE FindLast(ps, i - 1, filePath)

getParserForFileLast(ps, filePath) == FindLast(ps, Len(ps), filePath)

RECURSIVE Find(_, _, _)
\* Array.prototype.find: the elements are tried from index 0 upwards.
Find(ps, i, filePath) ==
    IF i > Len(ps) THEN Undefined
    ELSE IF canHandle(ps[i], filePath) THEN ps[i]
    ELSE Find(ps, i + 1, filePath)

\* return this.parsers.find(parser => parser.canHandle(filePath))
getParserForFile(ps, filePath) == Find(ps, 1, filePath)

\* A registration at the front of the array (Array.prototype.unshift).
registerParserFirst(ps, parser) == <<parser>> \o ps

\* this.parsers.push(parser)
registerParser(ps, parser) == Append(ps, parser)

(***************************************************************************)
(* The disk: the directory /p and the entries below it.                    *)
(***************************************************************************)
RootPath == "/p"
\* A regular file beside it.
PlainFile == "/f"
FileNames == {"a.ts", "b.js", "c.tsx", "d.yml", "e.md", "dist"}
DirNames == {"lib", "dist"}

\* The folder arguments of the model: /p (also untrimmed), a missing folder
\* and a path that is no directory.
Folders == {"/p", " /p ", "/q ", "/f"}

\* fs.existsSync(path)
ExistsSync(path) == path \in {RootPath, PlainFile}

\* fs.readdirSync(path) returns a listing (it throws ENOTDIR otherwise).
IsListable(path) == path = RootPath

FileEntry(name) == [name |-> name, isDirectory |-> FALSE, entries |-> <<>>]
DirEntry(name, entries) == [name |-> name, isDirectory |-> TRUE, entries |-> entries]

RECURSIVE NodeCount(_)
NodeCount(entries) ==
    IF entries = <<>> THEN 0
    ELSE 1 + NodeCount(Head(entries).entries) + NodeCount(Tail(entries))

\* The listings of a directory holding at most n nodes: names are unique
\* within a directory, the order is the one fs.readdirSync returns.
RECURSIVE Listings(_)
Listings(n) ==
    IF n < 1 THEN {<<>>}
    ELSE {<<>>} \cup
         UNION {
            LET firsts == {FileEntry(name) : name \in FileNames}
                          \cup {DirEntry(name, sub) : name \in DirNames,
                                                       sub \in Listings(k - 1)}
            IN  UNION {{<<e>> \o rest :
                           rest \in {r \in Listings(n - k) :
                                        \A j \in 1..Len(r) : r[j].name # e.name}} :
                       e \in {f \in firsts : 1 + NodeCount(f.entries) = k}}
            : k \in 1..n}

IGNORED_DIRS == {"node_modules", ".git", "dist", ".idea", ".vscode"}

RECURSIVE ScannedDirs(_, _)
\* The fs.readdirSync calls of listFilesRecursively(dirPath), in call order:
\* dirPath itself, then the directories the forEach descends into.
ScannedDirs(dirPath, list) ==
    IF list = <<>> THEN <<dirPath>>
    ELSE LET file == Head(list)
             below == IF file.name \notin IGNORED_DIRS /\ file.isDirectory
                      THEN ScannedDirs(PathJoin(dirPath, file.name), file.entries)
                      ELSE <<>>
         IN  <<dirPath>> \o below \o Tail(ScannedDirs(dirPath, Tail(list)))

RECURSIVE listFilesRecursivelyAll(_, _)
\* A traversal without the IGNORED_DIRS test.
listFilesRecursivelyAll(dirPath, list) ==
    IF list = <<>> THEN <<>>
    ELSE LET file == Head(list)
             filePath == PathJoin(dirPath, file.name)
             found == IF file.isDirectory
                      THEN listFilesRecursivelyAll(filePath, file.entries)
                      ELSE <<filePath>>
         IN  found \o listFilesRecursivelyAll(dirPath, Tail(list))

RECURSIVE listFilesRecursively(_, _)
\* listFilesRecursively(dirPath), `list` being fs.readdirSync(dirPath) with
\* what fs.statSync answers for each entry.
listFilesRecursively(dirPath, list) ==
    IF list = <<>> THEN <<>>
    ELSE LET file == Head(list)
             filePath == PathJoin(dirPath, file.name)
             found == IF file.name \in IGNORED_DIRS THEN <<>>
                      ELSE IF file.isDirectory
                      THEN listFilesRecursively(filePath, file.entries)
                      ELSE <<filePath>>
         IN  found \o listFilesRecursively(dirPath, Tail(list))

\* files.filter(file => file.endsWith('.ts') || file.endsWith('.js'))
IsCodeFile(file) == EndsWith(file, ".ts") \/ EndsWith(file, ".js")

FilterCodeFiles(fs) == SelectSeq(fs, IsCodeFile)

(***************************************************************************)
(* What parser.parseFile(file) may resolve with.                           *)
(***************************************************************************)
ParsedFunction(name, file) ==
    [FuncSmall EXCEPT !.name = name, !.location.file = file]

ParsedClass(name, file) ==
    [name |-> name, methods |-> <<MethodSmall>>, properties |-> <<>>,
     documentation |-> "",
     location |-> [file |-> file, startLine |-> 7, endLine |-> 9]]

\* Both arrays, possibly empty, or (the interface makes both optional)
\* functions alone.
ParseResults(file) ==
    { [functions |-> <<>>, classes |-> <<>>],
      [functions |-> <<ParsedFunction("foo", file), ParsedFunction("bar", file)>>,
       classes |-> <<ParsedClass("A", file)>>],
      [functions |-> <<ParsedFunction("foo", file)>>] }

\* Only the functions of a parse result are merged.
MergeFunctionsOnly(agg, res) ==
    [agg EXCEPT !.functions = @ \o FunctionsOf(res)]

\* if (result.functions) analysisResult.functions.push(...result.functions);
\* if (result.classes) analysisResult.classes.push(...result.classes);
MergeResult(agg, res) ==
    [functions |-> agg.functions \o FunctionsOf(res),
     classes |-> agg.classes \o ClassesOf(res)]

(***************************************************************************)
(* The parts of the model that are not running.                            *)
(***************************************************************************)
\* No sendQuery call is validating a response.
ValidateAtRest ==
    /\ response = [t |-> "undefined"]
    /\ responseFormat = [t |-> "undefined"]
    /\ vpc = "done"
    /\ validated = [kind |-> "none"]

\* No parseFile call is running.
ParseFileAtRest ==
    /\ parseFileArg = [parser |-> "none"]
    /\ ppc = "done"
    /\ parseFileResult = [kind |-> "none"]

\* analyzeChunkedCodebase is not running.
QueryAtRest ==
    /\ qpc = "done"
    /\ queryLog = <<>>
    /\ componentAnalyses = <<>>
    /\ qi = 0
    /\ queryOutcome = [kind |-> "none"]

RestAtRest == ValidateAtRest /\ ParseFileAtRest /\ QueryAtRest

\* { functions: [], classes: [] }
NoResult == [functions |-> <<>>, classes |-> <<>>]

(***************************************************************************)
(* analyzeCode (codeAnalyzer/index.ts).  The argument `code` is modelled   *)
(* by what ts-morph finds in it: sourceFile.getFunctions() and             *)
(* sourceFile.getClasses(), each declaration with the answers of its       *)
(* getters.                                                                *)
(***************************************************************************)
\* function foo(a, b) {\n  return a + b;\n}
DeclFoo ==
    [name |-> "foo",
     parameters |-> <<[name |-> "a", type |-> "any"], [name |-> "b", type |-> "any"]>>,
     returnType |-> "any", body |-> "{\n  return a + b;\n}", docs |-> "",
     startLine |-> 1, endLine |-> 3]

\* function bar(): void {}
DeclBar ==
    [name |-> "bar", parameters |-> <<>>, returnType |-> "void", body |-> "{}",
     docs |-> "", startLine |-> 5, endLine |-> 5]

\* export default function (x: number) { return x; }  (getName() is undefined)
DeclAnonymous ==
    [name |-> "", parameters |-> <<[name |-> "x", type |-> "number"]>>,
     returnType |-> "number", body |-> "{ return x; }", docs |-> "",
     startLine |-> 7, endLine |-> 7]

FunctionDecls == {DeclFoo, DeclBar, DeclAnonymous}

\* class A { m(): void {} }
DeclClassA ==
    [name |-> "A",
     methods |-> <<[name |-> "m", parameters |-> <<>>, returnType |-> "void",
                    body |-> "{}", documentation |-> ""]>>,
     properties |-> <<>>, docs |-> "", startLine |-> 9, endLine |-> 9]

ClassDecls == {DeclClassA}

\* The source texts: the empty string, and texts declaring at most
\* MaxDeclarations functions and classes (possibly none).
Sources ==
    {[text |-> "", functions |-> <<>>, classes |-> <<>>]} \cup
    { [text |-> "src", functions |-> decls[1], classes |-> decls[2]] :
        decls \in { d \in SeqsUpTo(FunctionDecls, MaxDeclarations)
                           \X SeqsUpTo(ClassDecls, MaxDeclarations) :
                      Len(d[1]) + Len(d[2]) <= MaxDeclarations } }

FilePaths == {"dummy.ts", "src/dummy.ts", ""}

RECURSIVE LastSlash(_, _)
\* The position of the last "/" among the first n characters of s, or 0.
LastSlash(s, n) ==
    IF n = 0 THEN 0
    ELSE IF CharAt(s, n) = "/" THEN n
    ELSE LastSlash(s, n - 1)

\* path.basename(p), for a path that does not end in "/"
Basename(p) == SubSeq(p, LastSlash(p, Len(p)) + 1, Len(p))

\* The entry pushed for one function, lines 49-85.
FunctionEntry(func, path) ==
    [name |-> IF func.name = "" THEN "<anonymous>" ELSE func.name,
     parameters |-> func.parameters,
     returnType |-> func.returnType,
     body |-> func.body,
     documentation |-> func.docs,
     location |-> [file |-> Basename(path), startLine |-> func.startLine,
                   endLine |-> func.endLine]]

\* The entry pushed for one class, lines 99-151.
ClassEntry(cls, path) ==
    [name |-> IF cls.name = "" THEN "<anonymous>" ELSE cls.name,
     methods |-> cls.methods,
     properties |-> cls.properties,
     documentation |-> cls.docs,
     location |-> [file |-> Basename(path), startLine |-> cls.startLine,
                   endLine |-> cls.endLine]]

\* analyzeCode is not running.
AnalyzeAtRest ==
    /\ code = [text |-> "", functions |-> <<>>, classes |-> <<>>]
    /\ codePath = ""
    /\ cpc = "done"
    /\ codeResult = NoResult

\* analyzeCode({ code, filePath }) is called.
AnalyzeCall ==
    /\ code \in Sources
    /\ codePath \in FilePaths
    /\ cpc = "start"
    /\ codeResult = NoResult

\* if (!code || !filePath) return { functions: [], classes: [] }, lines 20-23.
AnalyzeNothing ==
    /\ cpc = "start"
    /\ code.text = "" \/ codePath = ""
    /\ codeResult' = NoResult
    /\ cpc' = "done"
    /\ UNCHANGED <<code, codePath>>
    /\ UNCHANGED <<chunkVars, projectVars, restVars>>

\* Lines 25-39: the project and the source file are created.
AnalyzeParse ==
    /\ cpc = "start"
    /\ code.text # "" /\ codePath # ""
    /\ codeResult' = NoResult
    /\ cpc' = "functions"
    /\ UNCHANGED <<code, codePath>>
    /\ UNCHANGED <<chunkVars, projectVars, restVars>>

\* One iteration of functions.forEach, lines 46-89.
AnalyzeFunction ==
    /\ cpc = "functions"
    /\ Len(codeResult.functions) < Len(code.functions)
    /\ codeResult' = [codeResult EXCEPT !.functions =
           Append(@, FunctionEntry(code.functions[Len(codeResult.functions) + 1],
                                   codePath))]
    /\ UNCHANGED <<code, codePath, cpc>>
    /\ UNCHANGED <<chunkVars, projectVars, restVars>>

\* functions.forEach is over, lines 91-94.
AnalyzeFunctionsDone ==
    /\ cpc = "functions"
    /\ Len(codeResult.functions) = Len(code.functions)
    /\ cpc' = "classes"
    /\ UNCHANGED <<code, codePath, codeResult>>
    /\ UNCHANGED <<chunkVars, projectVars, restVars>>

\* One iteration of classes.forEach, lines 96-155.
AnalyzeClass ==
    /\ cpc = "classes"
    /\ Len(codeResult.classes) < Len(code.classes)
    /\ codeResult' = [codeResult EXCEPT !.classes =
           Append(@, ClassEntry(code.classes[Len(codeResult.classes) + 1], codePath))]
    /\ UNCHANGED <<code, codePath, cpc>>
    /\ UNCHANGED <<chunkVars, projectVars, restVars>>

\* return result, line 162.
AnalyzeReturn ==
    /\ cpc = "classes"
    /\ Len(codeResult.classes) = Len(code.classes)
    /\ cpc' = "done"
    /\ UNCHANGED <<code, codePath, codeResult>>
    /\ UNCHANGED <<chunkVars, projectVars, restVars>>

AnalyzeNext ==
    \/ AnalyzeNothing
    \/ AnalyzeParse
    \/ AnalyzeFunction
    \/ AnalyzeFunctionsDone
    \/ AnalyzeClass
    \/ AnalyzeReturn

(***************************************************************************)
(* analyzeProject (codeAnalyzer/projectAnalyzer.ts) and registerParser.    *)
(***************************************************************************)
\* No getParserForFile call was made yet.
NoLookup == [path |-> "", parser |-> Undefined, size |-> 0]

\* analyzeProject is not running.
ProjectAtRest ==
    /\ tree = <<>>
    /\ parsers = InitialParsers
    /\ registered = <<>>
    /\ apc = "returned"
    /\ resolvedPath = ""
    /\ files = <<>>
    /\ codeFiles = <<>>
    /\ fileIdx = 1
    /\ currentParser = Undefined
    /\ analysisResult = NoResult
    /\ errorLog = <<>>
    /\ parseLog = <<>>
    /\ outcome = [kind |-> "none"]
    /\ lookedUp = NoLookup
    /\ folder = ""
    /\ scanned = <<>>
    /\ inFlight = {}

\* analyzeProject is about to be called: a disk, and the registry as it is
\* at start-up or after one registerParser call.
ProjectInit ==
    /\ ChunkAtRest
    /\ AnalyzeAtRest
    /\ RestAtRest
    /\ tree \in Listings(MaxNodes)
    /\ registered \in {<<>>} \cup {<<parser>> : parser \in CustomParsers}
    /\ parsers = IF registered = <<>> THEN InitialParsers
                 ELSE registerParser(InitialParsers, registered[1])
    /\ lookedUp = NoLookup
    /\ apc = "idle"
    /\ resolvedPath = ""
    /\ files = <<>>
    /\ codeFiles = <<>>
    /\ fileIdx = 1
    /\ currentParser = Undefined
    /\ analysisResult = NoResult
    /\ errorLog = <<>>
    /\ parseLog = <<>>
    /\ outcome = [kind |-> "none"]
    /\ folder = ""
    /\ scanned = <<>>
    /\ inFlight = {}

\* The start of analyzeProject without the fs.existsSync test: the error is
\* the one fs.readdirSync throws.
StartMissingUnchecked ==
    /\ apc = "idle"
    /\ \E arg \in Folders :
          LET resolved == Normalize(Trim(arg))
          IN  /\ ~ExistsSync(resolved)
              /\ folder' = arg
              /\ resolvedPath' = resolved
              /\ scanned' = <<resolved>>
              /\ outcome' = [kind |-> "thrown",
                             message |-> "ENOENT: no such file or directory, scandir '"
                                         \o resolved \o "'"]
    /\ apc' = "thrown"
    /\ UNCHANGED <<tree, parsers, registered, files, codeFiles, fileIdx, currentParser,
                   analysisResult, errorLog, parseLog, inFlight>>
    /\ UNCHANGED <<chunkVars, lookedUp, analyzeVars, restVars>>

\* analyzeProject(folder) up to line 62: the folder does not exist.
StartMissing ==
    /\ apc = "idle"
    /\ \E arg \in Folders :
          LET resolved == Normalize(Trim(arg))
          IN  /\ ~ExistsSync(resolved)
              /\ folder' = arg
              /\ resolvedPath' = resolved
              /\ outcome' = [kind |-> "thrown",
                             message |-> "Folder does not exist: " \o resolved]
    /\ apc' = "thrown"
    /\ UNCHANGED <<tree, parsers, registered, files, codeFiles, fileIdx, currentParser,
                   analysisResult, errorLog, parseLog, scanned, inFlight>>
    /\ UNCHANGED <<chunkVars, lookedUp, analyzeVars, restVars>>

\* analyzeProject(folder) up to the for loop, lines 46-73: the folder exists.
StartAnalysis ==
    /\ apc = "idle"
    /\ \E arg \in Folders :
          LET resolved == Normalize(Trim(arg))
              found == listFilesRecursively(resolved, tree)
          IN  /\ ExistsSync(resolved)
              /\ IsListable(resolved)
              /\ folder' = arg
              /\ resolvedPath' = resolved
              /\ files' = found
              /\ scanned' = ScannedDirs(resolved, tree)
              /\ codeFiles' = FilterCodeFiles(found)
    /\ analysisResult' = NoResult
    /\ fileIdx' = 1
    /\ apc' = "loop"
    /\ UNCHANGED <<tree, parsers, registered, currentParser, errorLog, parseLog, outcome,
                   inFlight>>
    /\ UNCHANGED <<chunkVars, lookedUp, analyzeVars, restVars>>

\* analyzeProject(folder) up to line 65: the folder exists and
\* fs.readdirSync(resolvedPath) throws inside listFilesRecursively.
StartNotListable ==
    /\ apc = "idle"
    /\ \E arg \in Folders :
          LET resolved == Normalize(Trim(arg))
          IN  /\ ExistsSync(resolved)
              /\ ~IsListable(resolved)
              /\ folder' = arg
              /\ resolvedPath' = resolved
              /\ scanned' = <<resolved>>
              /\ outcome' = [kind |-> "thrown",
                             message |-> "ENOTDIR: not a directory, scandir '"
                                         \o resolved \o "'"]
    /\ apc' = "thrown"
    /\ UNCHANGED <<tree, parsers, registered, files, codeFiles, fileIdx, currentParser,
                   analysisResult, errorLog, parseLog, inFlight>>
    /\ UNCHANGED <<chunkVars, lookedUp, analyzeVars, restVars>>

\* A catch block that throws the error again.
CatchAndRethrow(file, message) ==
    /\ errorLog' = Append(errorLog, [file |-> file, message |-> message])
    /\ fileIdx' = fileIdx
    /\ apc' = "thrown"
    /\ outcome' = [kind |-> "thrown", message |-> message]

\* The catch block of the loop, lines 122-131: the error is logged and the
\* loop goes on with the next file.
CatchAndContinue(file, message) ==
    /\ errorLog' = Append(errorLog, [file |-> file, message |-> message])
    /\ fileIdx' = fileIdx + 1
    /\ apc' = "loop"
    /\ outcome' = outcome

\* An iteration that starts parser.parseFile(file) and goes on without
\* awaiting it.
FileDispatchNoAwait ==
    /\ apc = "loop"
    /\ fileIdx <= Len(codeFiles)
    /\ LET file == codeFiles[fileIdx]
           parser == getParserForFile(parsers, file)
       IN  IF parser = Undefined
           THEN UNCHANGED <<currentParser, inFlight>>
           ELSE /\ currentParser' = parser
                /\ inFlight' = inFlight \cup {fileIdx}
    /\ fileIdx' = fileIdx + 1
    /\ UNCHANGED <<tree, parsers, registered, apc, resolvedPath, files, codeFiles,
                   analysisResult, errorLog, parseLog, outcome>>
    /\ UNCHANGED <<folder, scanned>>
    /\ UNCHANGED <<chunkVars, lookedUp, analyzeVars, restVars>>

\* One iteration up to `await parser.parseFile(file)`, lines 76-95, for a
\* file that can be read.
FileDispatch ==
    /\ apc = "loop"
    /\ fileIdx <= Len(codeFiles)
    /\ LET file == codeFiles[fileIdx]
           parser == getParserForFile(parsers, file)
       IN  IF parser = Undefined
           THEN /\ fileIdx' = fileIdx + 1
                /\ UNCHANGED <<apc, currentParser, inFlight>>
           ELSE /\ currentParser' = parser
                /\ inFlight' = inFlight \cup {fileIdx}
                /\ apc' = "awaiting"
                /\ UNCHANGED fileIdx
    /\ UNCHANGED <<tree, parsers, registered, resolvedPath, files, codeFiles,
                   analysisResult, errorLog, parseLog, outcome>>
    /\ UNCHANGED <<folder, scanned>>
    /\ UNCHANGED <<chunkVars, lookedUp, analyzeVars, restVars>>

\* One iteration in which readFile(file) throws, lines 76-90 and 122-131.
FileUnreadable ==
    /\ apc = "loop"
    /\ fileIdx <= Len(codeFiles)
    /\ getParserForFile(parsers, codeFiles[fileIdx]) # Undefined
    /\ CatchAndContinue(codeFiles[fileIdx], "read error")
    /\ UNCHANGED <<tree, parsers, registered, resolvedPath, files, codeFiles,
                   currentParser, analysisResult, parseLog>>
    /\ UNCHANGED <<folder, scanned, inFlight>>
    /\ UNCHANGED <<chunkVars, lookedUp, analyzeVars, restVars>>

\* parser.parseFile(file) resolves: the result is merged, lines 95-120.
ParseResolved ==
    /\ apc = "awaiting"
    /\ \E res \in ParseResults(codeFiles[fileIdx]) :
          /\ analysisResult' = MergeResult(analysisResult, res)
          /\ parseLog' = Append(parseLog,
                 [file |-> codeFiles[fileIdx], parser |-> currentParser.name,
                  ok |-> TRUE, result |-> res])
    /\ fileIdx' = fileIdx + 1
    /\ currentParser' = Undefined
    /\ apc' = "loop"
    /\ UNCHANGED <<tree, parsers, registered, resolvedPath, files, codeFiles,
                   errorLog, outcome>>
    /\ inFlight' = inFlight \ {fileIdx}
    /\ UNCHANGED <<folder, scanned>>
    /\ UNCHANGED <<chunkVars, lookedUp, analyzeVars, restVars>>

\* parser.parseFile(file) rejects: the catch block, lines 122-131.
ParseRejected ==
    /\ apc = "awaiting"
    /\ parseLog' = Append(parseLog,
           [file |-> codeFiles[fileIdx], parser |-> currentParser.name,
            ok |-> FALSE, result |-> NoResult])
    /\ CatchAndContinue(codeFiles[fileIdx], "parse error")
    /\ currentParser' = Undefined
    /\ UNCHANGED <<tree, parsers, registered, resolvedPath, files, codeFiles,
                   analysisResult>>
    /\ inFlight' = inFlight \ {fileIdx}
    /\ UNCHANGED <<folder, scanned>>
    /\ UNCHANGED <<chunkVars, lookedUp, analyzeVars, restVars>>

\* return analysisResult, line 142.
ReturnAnalysis ==
    /\ apc = "loop"
    /\ fileIdx > Len(codeFiles)
    /\ outcome' = [kind |-> "returned", value |-> analysisResult]
    /\ apc' = "returned"
    /\ UNCHANGED <<tree, parsers, registered, resolvedPath, files, codeFiles, fileIdx,
                   currentParser, analysisResult, errorLog, parseLog>>
    /\ UNCHANGED <<folder, scanned, inFlight>>
    /\ UNCHANGED <<chunkVars, lookedUp, analyzeVars, restVars>>

ProjectNext ==
    \/ StartMissing
    \/ StartNotListable
    \/ StartAnalysis
    \/ FileDispatch
    \/ FileUnreadable
    \/ ParseResolved
    \/ ParseRejected
    \/ ReturnAnalysis

ProjectSpec == ProjectInit /\ [][ProjectNext]_vars

(***************************************************************************)
(* ParserRegistry and its clients.                                         *)
(***************************************************************************)
\* The paths clients ask the registry about.
QueryPaths ==
    {"/p/a.ts", "/p/lib/c.tsx", "/p/b.js", "x.jsx", "/p/d.yml", "e.yaml", "/p/e.md",
     "a.mts", "/p/dist", ".ts", "ts", ""}

RegistryInit ==
    /\ ChunkAtRest
    /\ AnalyzeAtRest
    /\ RestAtRest
    /\ ProjectAtRest

\* ParserRegistry.registerParser(parser)
RegisterParser ==
    /\ Len(registered) < MaxRegistrations
    /\ \E parser \in CustomParsers :
          /\ parsers' = registerParser(parsers, parser)
          /\ registered' = Append(registered, parser)
    /\ UNCHANGED <<tree, apc, resolvedPath, files, codeFiles, fileIdx, currentParser,
                   analysisResult, errorLog, parseLog, outcome, lookedUp>>
    /\ UNCHANGED <<chunkVars, analyzeVars, restVars, folder, scanned, inFlight>>

\* ParserRegistry.getParserForFile(filePath)
Lookup ==
    /\ \E path \in QueryPaths :
          lookedUp' = [path |-> path, parser |-> getParserForFile(parsers, path),
                       size |-> Len(parsers)]
    /\ UNCHANGED <<tree, parsers, registered, apc, resolvedPath, files, codeFiles,
                   fileIdx, currentParser, analysisResult, errorLog, parseLog, outcome>>
    /\ UNCHANGED <<chunkVars, analyzeVars, restVars, folder, scanned, inFlight>>

RegistryNext ==
    \/ RegisterParser
    \/ Lookup

RegistrySpec == RegistryInit /\ [][RegistryNext]_vars

(***************************************************************************)
(* Parsed JSON values (src/mcp/openaiClient.ts works on `any`).  A value   *)
(* carries its JavaScript type in the field t.                             *)
(***************************************************************************)
JsUndefined == [t |-> "undefined"]

Null == [t |-> "null"]

Str(s) == [t |-> "string", v |-> s]

Arr(items) == [t |-> "array", items |-> items]

Obj(fields) == [t |-> "object", fields |-> fields]

\* A key a JSON text leaves out.
Absent == [t |-> "absent"]

\* The keys of r that the JSON text spells out.
Present(r) == [k \in {n \in DOMAIN r : r[n] # Absent} |-> r[k]]

\* value[field]
Get(value, field) ==
    IF value.t = "object" /\ field \in DOMAIN value.fields
    THEN value.fields[field]
    ELSE JsUndefined

\* !!value
Truthy(value) ==
    CASE value.t \in {"undefined", "null"} -> FALSE
      [] value.t = "string" -> value.v # ""
      [] OTHER -> TRUE

\* typeof value === 'object'
IsObjectType(value) == value.t \in {"object", "array", "null"}

\* Array.isArray(value)
IsArray(value) == value.t = "array"

\* field in value
HasField(value, field) == value.t = "object" /\ field \in DOMAIN value.fields

\* for (const field of requiredFields) if (!value[field]) return false
AllTruthy(value, requiredFields) ==
    \A i \in 1..Len(requiredFields) : Truthy(Get(value, requiredFields[i]))

\* for (const field of requiredFields) if (!(field in value)) return false
AllIn(value, requiredFields) ==
    \A i \in 1..Len(requiredFields) : HasField(value, requiredFields[i])

validateComponent(component) ==
    IF ~Truthy(component) \/ ~IsObjectType(component) THEN FALSE
    ELSE AllTruthy(component, <<"type", "name", "description">>)

validateFunction(func) ==
    IF ~Truthy(func) \/ ~IsObjectType(func) THEN FALSE
    ELSE IF ~AllIn(func, <<"name", "description", "parameters", "returnType">>)
    THEN FALSE
    ELSE IsArray(Get(func, "parameters"))

validateClass(cls) ==
    IF ~Truthy(cls) \/ ~IsObjectType(cls) THEN FALSE
    ELSE IF ~AllIn(cls, <<"name", "methods", "properties">>) THEN FALSE
    ELSE IF ~IsArray(Get(cls, "methods")) THEN FALSE
    ELSE IsArray(Get(cls, "properties"))

\* validateModule without the checks of the optional arrays.
validateModuleRequiredOnly(module) ==
    IF ~Truthy(module) \/ ~IsObjectType(module) THEN FALSE
    ELSE AllTruthy(module, <<"name", "description">>)

validateModule(module) ==
    IF ~Truthy(module) \/ ~IsObjectType(module) THEN FALSE
    ELSE IF ~AllTruthy(module, <<"name", "description">>) THEN FALSE
    ELSE IF Truthy(Get(module, "imports")) /\ ~IsArray(Get(module, "imports"))
    THEN FALSE
    ELSE IF Truthy(Get(module, "exports")) /\ ~IsArray(Get(module, "exports"))
    THEN FALSE
    ELSE IF Truthy(Get(module, "dependencies"))
            /\ ~IsArray(Get(module, "dependencies"))
    THEN FALSE
    ELSE TRUE

\* The outcome of one `if (list) { ... }` block of the analysis branch:
\* "skip" when the list is falsy, "fail" on a return false, "empty" or
\* "content" after the loop.
ListCheck(list, kind) ==
    IF ~Truthy(list) THEN "skip"
    ELSE IF ~IsArray(list) THEN "fail"
    ELSE IF \E i \in 1..Len(list.items) :
                CASE kind = "function" -> ~validateFunction(list.items[i])
                  [] kind = "class" -> ~validateClass(list.items[i])
                  [] OTHER -> ~validateModule(list.items[i])
    THEN "fail"
    ELSE IF Len(list.items) > 0 THEN "content"
    ELSE "empty"

validateResponseStructure(resp, format) ==
    IF ~Truthy(resp) \/ ~IsObjectType(resp) THEN FALSE
    ELSE IF Truthy(format) THEN TRUE
    ELSE IF Truthy(Get(resp, "components")) /\ IsArray(Get(resp, "components"))
    THEN \A i \in 1..Len(Get(resp, "components").items) :
            validateComponent(Get(resp, "components").items[i])
    ELSE IF Truthy(Get(resp, "analysis")) /\ IsObjectType(Get(resp, "analysis"))
    THEN LET analysis == Get(resp, "analysis")
             checks == << ListCheck(Get(analysis, "functions"), "function"),
                          ListCheck(Get(analysis, "classes"), "class"),
                          ListCheck(Get(analysis, "modules"), "module") >>
         IN  IF \E i \in 1..3 : checks[i] = "fail" THEN FALSE
             ELSE \E i \in 1..3 : checks[i] = "content"
    ELSE FALSE

(***************************************************************************)
(* The responses the model validates.                                      *)
(***************************************************************************)
ValidComponent ==
    Obj([type |-> Str("function"), name |-> Str("f"), description |-> Str("d")])

EmptyNameComponent ==
    Obj([type |-> Str("function"), name |-> Str(""), description |-> Str("d")])

UndescribedComponent == Obj([type |-> Str("function"), name |-> Str("f")])

ComponentItems == {ValidComponent, EmptyNameComponent, UndescribedComponent}

ValidFunction ==
    Obj([name |-> Str("f"), description |-> Str("d"),
         parameters |-> Arr(<<>>), returnType |-> Str("void")])

UntypedFunction ==
    Obj([name |-> Str("f"), description |-> Str("d"), parameters |-> Arr(<<>>)])

StringParametersFunction ==
    Obj([name |-> Str("f"), description |-> Str("d"),
         parameters |-> Str("a, b"), returnType |-> Str("void")])

FunctionItems == {ValidFunction, UntypedFunction, StringParametersFunction}

ValidClass ==
    Obj([name |-> Str("A"), methods |-> Arr(<<>>), properties |-> Arr(<<>>)])

StringMethodsClass ==
    Obj([name |-> Str("A"), methods |-> Str("m"), properties |-> Arr(<<>>)])

ClassItems == {ValidClass, StringMethodsClass}

ValidModule == Obj([name |-> Str("m"), description |-> Str("d")])

EmptyDescriptionModule == Obj([name |-> Str("m"), description |-> Str("")])

StringImportsModule ==
    Obj([name |-> Str("m"), description |-> Str("d"), imports |-> Str("fs")])

ModuleItems == {ValidModule, EmptyDescriptionModule, StringImportsModule}

\* What a key that should hold a list of items can hold.
ListOptions(items) ==
    {Absent, Str("none")} \cup {Arr(s) : s \in SeqsUpTo(items, MaxItems)}

AnalysisOptions ==
    {Absent, Null}
    \cup { Obj(Present([functions |-> f, classes |-> c, modules |-> m])) :
             f \in ListOptions(FunctionItems),
             c \in ListOptions(ClassItems),
             m \in ListOptions(ModuleItems) }

\* JSON.parse of the text between the first { and the last } is an object.
Responses ==
    { Obj(Present([components |-> c, analysis |-> a])) :
        c \in ListOptions(ComponentItems), a \in AnalysisOptions }

SchemaFormat == Obj([type |-> Str("object")])

ResponseFormats == {JsUndefined, SchemaFormat}

(***************************************************************************)
(* sendQuery from the parsed response on (openaiClient.ts 385-405).        *)
(***************************************************************************)
ValidateCall ==
    /\ response \in Responses
    /\ responseFormat \in ResponseFormats
    /\ vpc = "parsed"
    /\ validated = [kind |-> "none"]

\* validateResponseStructure returned true: sendQuery returns.
ValidateAccepted ==
    /\ vpc = "parsed"
    /\ validateResponseStructure(response, responseFormat)
    /\ validated' =
         [kind |-> "returned",
          value |-> IF Truthy(responseFormat) THEN response
                    ELSE IF Truthy(Get(response, "analysis"))
                    THEN Get(response, "analysis")
                    ELSE Get(response, "components")]
    /\ vpc' = "done"
    /\ UNCHANGED <<response, responseFormat>>
    /\ UNCHANGED <<chunkVars, projectVars, analyzeVars, parseFileVars, queryVars>>

\* validateResponseStructure returned false: the throw of line 390, wrapped
\* by the catch of line 400.
ValidateRejected ==
    /\ vpc = "parsed"
    /\ ~validateResponseStructure(response, responseFormat)
    /\ validated' =
         [kind |-> "thrown",
          message |-> "Failed to parse OpenAI response as JSON: "
                      \o "Invalid response structure"]
    /\ vpc' = "done"
    /\ UNCHANGED <<response, responseFormat>>
    /\ UNCHANGED <<chunkVars, projectVars, analyzeVars, parseFileVars, queryVars>>

ValidateNext == ValidateAccepted \/ ValidateRejected

ValidateInit ==
    /\ ValidateCall
    /\ ChunkAtRest /\ ProjectAtRest /\ AnalyzeAtRest
    /\ ParseFileAtRest /\ QueryAtRest

ValidateSpec == ValidateInit /\ [][ValidateNext]_vars

(***************************************************************************)
(* parseFile of the TypeScript and the YAML parser                         *)
(* (languageParsers/tsParser.ts, languageParsers/yamlParser.ts).           *)
(* A TypeScript file is a sequence of top-level statements, one per line.  *)
(***************************************************************************)
\* function b() {}
FunctionStatement == [kind |-> "function", name |-> "b"]

\* const a = () => 1
ArrowStatement == [kind |-> "arrow", name |-> "a"]

\* run(() => 1): an arrow function whose parent is no variable declaration
CallbackStatement == [kind |-> "callback", name |-> ""]

\* class A {}
ClassStatement == [kind |-> "class", name |-> "A"]

Statements ==
    {FunctionStatement, ArrowStatement, CallbackStatement, ClassStatement}

TsPaths == {"/p/a.ts", "/p/c.tsx"}

YamlPaths == {"/p/e.yml", "/p/g.yaml"}

YamlTexts == {"", "key: value", "list: [a, b]", "key: [unclosed"}

\* No file at the path.
MissingFile == [kind |-> "missing"]

\* The statements of a source file with their line numbers.
Numbered(statements) ==
    [i \in 1..Len(statements) |->
        [kind |-> statements[i].kind, name |-> statements[i].name, line |-> i]]

\* project.addSourceFileAtPath(filePath)
addSourceFileAtPath(filePath, content) ==
    [filePath |-> filePath, statements |-> Numbered(content.statements)]

IsFunctionDeclaration(node) == node.kind = "function"

IsArrowFunction(node) == node.kind \in {"arrow", "callback"}

\* Node.isVariableDeclaration(arrow.getParent())
IsVariableDeclaration(node) == node.kind = "arrow"

IsClassDeclaration(node) == node.kind = "class"

\* The record getFunctions pushes for a declaration or an arrow function.
FunctionAnalysis(sourceFile, node) ==
    [name |-> IF node.name = "" THEN "anonymous" ELSE node.name,
     parameters |-> <<>>,
     returnType |-> IF IsFunctionDeclaration(node) THEN "void" ELSE "number",
     body |-> IF IsFunctionDeclaration(node) THEN "{}" ELSE "1",
     documentation |-> "",
     location |-> [file |-> sourceFile.filePath,
                   startLine |-> node.line,
                   endLine |-> node.line]]

\* [f(s[1]), ..., f(s[n])] for the records of getFunctions
FunctionAnalyses(sourceFile, nodes) ==
    [i \in 1..Len(nodes) |-> FunctionAnalysis(sourceFile, nodes[i])]

getFunctions(sourceFile) ==
    LET declarations == SelectSeq(sourceFile.statements, IsFunctionDeclaration)
        arrows == SelectSeq(sourceFile.statements, IsArrowFunction)
        named == SelectSeq(arrows, IsVariableDeclaration)
    IN  FunctionAnalyses(sourceFile, declarations)
        \o FunctionAnalyses(sourceFile, named)

getClasses(sourceFile) ==
    LET declarations == SelectSeq(sourceFile.statements, IsClassDeclaration)
    IN  [i \in 1..Len(declarations) |->
            [name |-> declarations[i].name,
             methods |-> <<>>,
             properties |-> <<>>,
             documentation |-> "",
             location |-> [file |-> sourceFile.filePath,
                           startLine |-> declarations[i].line,
                           endLine |-> declarations[i].line]]]

\* The number of positions of text that hold the character ch.
Occurrences(text, ch) ==
    Cardinality({i \in 1..Len(text) : SubSeq(text, i, i) = ch})

\* yaml.load(content): a flow sequence that is opened and not closed is a
\* YAMLException, any other text of YamlTexts loads.
yamlLoad(content) ==
    IF Occurrences(content, "[") > Occurrences(content, "]")
    THEN [kind |-> "thrown", error |-> "YAMLException"]
    ELSE [kind |-> "document"]

ParseFileCall ==
    /\ parseFileArg \in
         { [parser |-> "TypeScriptParser", filePath |-> p, content |-> c] :
             p \in TsPaths,
             c \in {MissingFile}
                   \cup { [kind |-> "source", statements |-> s] :
                            s \in SeqsUpTo(Statements, MaxStatements) } }
         \cup
         { [parser |-> "YAMLParser", filePath |-> p, content |-> c] :
             p \in YamlPaths,
             c \in {MissingFile}
                   \cup { [kind |-> "text", text |-> t] : t \in YamlTexts } }
    /\ ppc = "called"
    /\ parseFileResult = [kind |-> "none"]

\* TypeScriptParser.parseFile returns result.
TsParseFile ==
    /\ ppc = "called"
    /\ parseFileArg.parser = "TypeScriptParser"
    /\ parseFileArg.content # MissingFile
    /\ LET sourceFile ==
             addSourceFileAtPath(parseFileArg.filePath, parseFileArg.content)
       IN  parseFileResult' =
             [kind |-> "resolved",
              value |-> [functions |-> getFunctions(sourceFile),
                         classes |-> getClasses(sourceFile)]]
    /\ ppc' = "done"
    /\ UNCHANGED parseFileArg
    /\ UNCHANGED <<chunkVars, projectVars, analyzeVars, validateVars, queryVars>>

\* addSourceFileAtPath throws; the catch logs and throws the error again.
TsParseFileThrows ==
    /\ ppc = "called"
    /\ parseFileArg.parser = "TypeScriptParser"
    /\ parseFileArg.content = MissingFile
    /\ parseFileResult' = [kind |-> "rejected", error |-> "FileNotFoundError"]
    /\ ppc' = "done"
    /\ UNCHANGED parseFileArg
    /\ UNCHANGED <<chunkVars, projectVars, analyzeVars, validateVars, queryVars>>

\* YAMLParser.parseFile: fs.readFileSync throws.
YamlReadThrows ==
    /\ ppc = "called"
    /\ parseFileArg.parser = "YAMLParser"
    /\ parseFileArg.content = MissingFile
    /\ parseFileResult' = [kind |-> "rejected", error |-> "ENOENT"]
    /\ ppc' = "done"
    /\ UNCHANGED parseFileArg
    /\ UNCHANGED <<chunkVars, projectVars, analyzeVars, validateVars, queryVars>>

\* YAMLParser.parseFile: yaml.load throws.
YamlLoadThrows ==
    /\ ppc = "called"
    /\ parseFileArg.parser = "YAMLParser"
    /\ parseFileArg.content # MissingFile
    /\ yamlLoad(parseFileArg.content.text).kind = "thrown"
    /\ parseFileResult' =
         [kind |-> "rejected",
          error |-> yamlLoad(parseFileArg.content.text).error]
    /\ ppc' = "done"
    /\ UNCHANGED parseFileArg
    /\ UNCHANGED <<chunkVars, projectVars, analyzeVars, validateVars, queryVars>>

\* YAMLParser.parseFile returns the empty arrays.
YamlParseFile ==
    /\ ppc = "called"
    /\ parseFileArg.parser = "YAMLParser"
    /\ parseFileArg.content # MissingFile
    /\ yamlLoad(parseFileArg.content.text).kind = "document"
    /\ parseFileResult' =
         [kind |-> "resolved", value |-> [functions |-> <<>>, classes |-> <<>>]]
    /\ ppc' = "done"
    /\ UNCHANGED parseFileArg
    /\ UNCHANGED <<chunkVars, projectVars, analyzeVars, validateVars, queryVars>>

ParseFileNext ==
    \/ TsParseFile
    \/ TsParseFileThrows
    \/ YamlReadThrows
    \/ YamlLoadThrows
    \/ YamlParseFile

ParseFileInit ==
    /\ ParseFileCall
    /\ ChunkAtRest /\ ProjectAtRest /\ AnalyzeAtRest
    /\ ValidateAtRest /\ QueryAtRest

ParseFileSpec == ParseFileInit /\ [][ParseFileNext]_vars

(***************************************************************************)
(* analyzeChunkedCodebase, src/src/mcp/openaiClient.ts:538-659.  queryLog  *)
(* holds the sendQuery calls in the order they were issued, each with its  *)
(* context and whether its promise is pending, resolved or rejected.       *)
(***************************************************************************)
\* chunkCodebase(context, maxChunkSize: number = 32000)
DefaultMaxChunkSize == 32000

\* A sendQuery call that has not settled.
Query(kind, ctx) == [kind |-> kind, context |-> ctx, state |-> "pending"]

\* queryLog with its last call settled.
Settle(log, state) == [log EXCEPT ![Len(log)].state = state]

\* What sendQuery resolves with for a chunk: the list of its components.
ChunkAnalysis(chunk) == << [analysisOf |-> chunk] >>

\* What sendQuery resolves with when a response format is given.
Reply(kind) == [reply |-> kind]

RECURSIVE Doubled(_, _)
\* text written 2^n times
Doubled(text, n) == IF n = 0 THEN text ELSE Doubled(text \o text, n - 1)

\* A function whose own size is above the default maxChunkSize.
FuncHuge ==
    [name |-> "h", parameters |-> <<>>, returnType |-> "number",
     body |-> Doubled(LongBody, 11), documentation |-> "",
     location |-> [file |-> "a.ts", startLine |-> 11, endLine |-> 2059]]

\* The contexts analyzeChunkedCodebase is called with.
QueryContexts ==
    Contexts
    \cup { [functions |-> <<FuncHuge>> \o fs, classes |-> cs] :
              fs \in SeqsUpTo(FuncPool, 1), cs \in ClassSeqs(1) }

\* analyzeChunkedCodebase(context) is entered.
QueryCall ==
    /\ context \in QueryContexts
    /\ maxChunkSize = 1
    /\ pc = "done"
    /\ chunks = <<>>
    /\ functionChunks = <<>>
    /\ classChunks = <<>>
    /\ currentChunk = <<>>
    /\ currentSize = 0
    /\ idx = 1
    /\ result = <<>>
    /\ qpc = "called"
    /\ queryLog = <<>>
    /\ componentAnalyses = <<>>
    /\ qi = 0
    /\ queryOutcome = [kind |-> "none"]

\* const overview = await sendQuery({ prompt, context, responseFormat })
AskOverview ==
    /\ qpc = "called"
    /\ queryLog' = <<Query("overview", context)>>
    /\ qpc' = "overview"
    /\ UNCHANGED <<componentAnalyses, qi, queryOutcome>>
    /\ UNCHANGED <<chunkVars, projectVars, analyzeVars, validateVars, parseFileVars>>

\* The overview resolves and chunkCodebase(context) is called.
OverviewResolved ==
    /\ qpc = "overview"
    /\ queryLog' = Settle(queryLog, "resolved")
    /\ qpc' = "chunking"
    /\ maxChunkSize' = DefaultMaxChunkSize
    /\ pc' = "functions"
    /\ UNCHANGED <<context, chunks, functionChunks, classChunks, currentChunk,
                   currentSize, idx, result>>
    /\ UNCHANGED <<componentAnalyses, qi, queryOutcome>>
    /\ UNCHANGED <<projectVars, analyzeVars, validateVars, parseFileVars>>

\* chunkCodebase has returned: the loop starts and awaits the query of
\* chunks[0], or awaits the dependency query when there is no chunk.
ChunksReturned ==
    /\ qpc = "chunking"
    /\ pc = "done"
    /\ componentAnalyses' = <<>>
    /\ IF 0 < Len(result)
       THEN /\ queryLog' = Append(queryLog, Query("chunk", result[1]))
            /\ qi' = 0
            /\ qpc' = "chunk"
       ELSE /\ queryLog' = Append(queryLog, Query("dependencies", context))
            /\ qi' = 0
            /\ qpc' = "dependencies"
    /\ UNCHANGED queryOutcome
    /\ UNCHANGED <<chunkVars, projectVars, analyzeVars, validateVars, parseFileVars>>

\* A chunk query that resolves, answered with an empty list that is never
\* pushed, without waiting for the queries of the chunks that follow it.
ChunkResolvedNoAwait ==
    /\ qpc = "chunk"
    /\ componentAnalyses' = componentAnalyses
    /\ queryLog' =
         Settle(queryLog, "resolved")
         \o [k \in 1..(Len(result) - (qi + 1)) |->
                Query("chunk", result[qi + 1 + k])]
         \o <<Query("dependencies", context)>>
    /\ qi' = Len(result)
    /\ qpc' = "dependencies"
    /\ UNCHANGED queryOutcome
    /\ UNCHANGED <<chunkVars, projectVars, analyzeVars, validateVars, parseFileVars>>

\* The query of chunks[i] resolves: componentAnalyses.push(chunkAnalysis),
\* i++, and either the next chunk query or the dependency query is awaited.
ChunkResolved ==
    /\ qpc = "chunk"
    /\ componentAnalyses' =
         Append(componentAnalyses, ChunkAnalysis(result[qi + 1]))
    /\ qi' = qi + 1
    /\ IF qi + 1 < Len(result)
       THEN /\ queryLog' = Append(Settle(queryLog, "resolved"),
                                  Query("chunk", result[qi + 2]))
            /\ qpc' = "chunk"
       ELSE /\ queryLog' = Append(Settle(queryLog, "resolved"),
                                  Query("dependencies", context))
            /\ qpc' = "dependencies"
    /\ UNCHANGED queryOutcome
    /\ UNCHANGED <<chunkVars, projectVars, analyzeVars, validateVars, parseFileVars>>

\* The dependency query resolves: return { overview, components, dependencies }
DependenciesResolved ==
    /\ qpc = "dependencies"
    /\ queryLog' = Settle(queryLog, "resolved")
    /\ queryOutcome' =
         [kind |-> "returned",
          value |-> [overview |-> Reply("overview"),
                     components |-> Flatten(componentAnalyses),
                     dependencies |-> Reply("dependencies")]]
    /\ qpc' = "done"
    /\ UNCHANGED <<componentAnalyses, qi>>
    /\ UNCHANGED <<chunkVars, projectVars, analyzeVars, validateVars, parseFileVars>>

\* The awaited sendQuery rejects: nothing catches it, so the call rejects
\* with the same error.
QueryRejected ==
    /\ qpc \in {"overview", "chunk", "dependencies"}
    /\ queryLog' = Settle(queryLog, "rejected")
    /\ queryOutcome' = [kind |-> "rejected", query |-> Len(queryLog)]
    /\ qpc' = "done"
    /\ UNCHANGED <<componentAnalyses, qi>>
    /\ UNCHANGED <<chunkVars, projectVars, analyzeVars, validateVars, parseFileVars>>

QueryNext ==
    \/ AskOverview
    \/ OverviewResolved
    \/ ChunkNext
    \/ ChunksReturned
    \/ ChunkResolved
    \/ DependenciesResolved
    \/ QueryRejected

QueryInit ==
    /\ QueryCall
    /\ ProjectAtRest /\ AnalyzeAtRest
    /\ ValidateAtRest /\ ParseFileAtRest

QuerySpec == QueryInit /\ [][QueryNext]_vars

ChunkInit == ChunkCall /\ ProjectAtRest /\ AnalyzeAtRest /\ RestAtRest

AnalyzeInit == AnalyzeCall /\ ChunkAtRest /\ ProjectAtRest /\ RestAtRest

AnalyzeSpec == AnalyzeInit /\ [][AnalyzeNext]_vars

ChunkSpec == ChunkInit /\ [][ChunkNext]_vars

(***************************************************************************)
(* Properties of chunkCodebase.                                            *)
(***************************************************************************)
\* No entity of the chunk is, on its own, larger than the budget.
ChunkEntitiesFit(chunk) ==
    /\ \A i \in 1..Len(FunctionsOf(chunk)) :
           funcTokens(FunctionsOf(chunk)[i]) <= maxChunkSize
    /\ \A i \in 1..Len(ClassesOf(chunk)) :
           clsTokens(ClassesOf(chunk)[i]) <= maxChunkSize

\* C1: every returned chunk that holds no entity larger than maxChunkSize has
\* an estimated size, ceil(length(JSON.stringify(chunk)) / 4), of at most
\* maxChunkSize.
C1_ChunkBound ==
    pc = "done" =>
        \A i \in 1..Len(result) :
            ChunkEntitiesFit(result[i]) =>
                estimateTokens(JsonContext(result[i])) <= maxChunkSize

NoFunctions == FunctionsOf(context) = <<>>
NoClasses == ClassesOf(context) = <<>>

\* C2: chunkCodebase returns at least one chunk, and exactly the one chunk
\* `context` when the input has neither functions nor classes or when both
\* packings came out empty.
C2_NeverEmpty ==
    pc = "done" =>
        /\ Len(result) >= 1
        /\ (NoFunctions /\ NoClasses) => result = <<context>>
        /\ (functionChunks = <<>> /\ classChunks = <<>>) => result = <<context>>

\* C2 witness: a call that returned although its input had classes and both
\* packings were empty.
C2_Witness ==
    /\ pc = "done"
    /\ ~NoClasses
    /\ functionChunks = <<>>
    /\ classChunks = <<>>
    /\ result = <<context>>

\* The functions list of the input, an oversized function as its body-elided copy.
ExpectedFunctions ==
    LET fs == FunctionsOf(context)
    IN  [i \in 1..Len(fs) |->
            IF funcTokens(fs[i]) > maxChunkSize THEN funcWithoutBody(fs[i]) ELSE fs[i]]

\* C3: the functions lists of the returned chunks, concatenated in chunk
\* order, are the functions list of the input.
C3_FunctionsPreserved ==
    pc = "done" =>
        Flatten([i \in 1..Len(result) |-> FunctionsOf(result[i])]) = ExpectedFunctions

\* A run of partial-class records "Part 1/n" .. "Part n/n" merged back into
\* one class: the record without its note, with the methods concatenated.
RECURSIVE MergePartials(_)
MergePartials(cs) ==
    IF cs = <<>> THEN <<>>
    ELSE LET h == Head(cs)
             ns == {n \in 1..Len(cs) :
                       \A j \in 1..n : /\ "note" \in DOMAIN cs[j]
                                        /\ cs[j].note = NoteOf(j, n)}
         IN  IF ns = {}
             THEN <<h>> \o MergePartials(Tail(cs))
             ELSE LET n == CHOOSE k \in ns : TRUE
                      methods == Flatten([j \in 1..n |-> cs[j].methods])
                  IN  <<[k \in DOMAIN h \ {"note"} |->
                            IF k = "methods" THEN methods ELSE h[k]]>>
                      \o MergePartials(SubSeq(cs, n + 1, Len(cs)))

\* C4: the classes lists of the returned chunks, concatenated in chunk order
\* with the partial-class records of a class merged, are the classes list of
\* the input.
C4_ClassesPreserved ==
    pc = "done" =>
        MergePartials(Flatten([i \in 1..Len(result) |-> ClassesOf(result[i])]))
            = ClassesOf(context)

(***************************************************************************)
(* Properties of analyzeProject.                                           *)
(***************************************************************************)
\* C5: a failure of a file (readFile throwing, parseFile rejecting) never
\* makes analyzeProject throw: it is caught in the loop, which goes on with
\* the next file.
C5_FailureIsolation ==
    errorLog # <<>> =>
        /\ apc \in {"loop", "awaiting", "returned"}
        /\ \A i \in 1..Len(errorLog) :
               \E j \in 1..(fileIdx - 1) : codeFiles[j] = errorLog[i].file

\* C5 witness: a call that returned after two files failed, one on reading
\* and one on parsing.
C5_Witness ==
    /\ apc = "returned"
    /\ outcome.kind = "returned"
    /\ Len(errorLog) = 2
    /\ errorLog[1].message # errorLog[2].message

Succeeded == SelectSeq(parseLog, LAMBDA e : e.ok)

PositionIn(seq, x) == CHOOSE k \in 1..Len(seq) : seq[k] = x

\* C6: the returned functions (classes) are the concatenation, in traversal
\* order, of the functions (classes) of the parses that succeeded, each as the
\* parser returned it; a failed parse contributes nothing, nothing is merged
\* away.
C6_AggregateIsConcatenation ==
    apc = "returned" =>
        /\ outcome.value.functions
             = Flatten([i \in 1..Len(Succeeded) |-> FunctionsOf(Succeeded[i].result)])
        /\ outcome.value.classes
             = Flatten([i \in 1..Len(Succeeded) |-> ClassesOf(Succeeded[i].result)])
        /\ \A i, j \in 1..Len(parseLog) :
               i < j => PositionIn(files, parseLog[i].file)
                           < PositionIn(files, parseLog[j].file)

\* C6 witness: a call that returned entities of one file after the parse of
\* another file failed.
C6_Witness ==
    /\ apc = "returned"
    /\ \E i, j \in 1..Len(parseLog) :
          /\ ~parseLog[i].ok
          /\ parseLog[j].ok
          /\ ClassesOf(parseLog[j].result) # <<>>
    /\ outcome.value.functions # <<>>

\* C7: when files failed, what analyzeProject returns holds, beside the
\* aggregate, the list of {file, message} of the failures in processing order.
C7_FailuresReturned ==
    (apc = "returned" /\ errorLog # <<>>) =>
        /\ "failures" \in DOMAIN outcome
        /\ outcome.failures = errorLog

\* Some parser of the registry accepts the file.
Recognized(file) == \E i \in 1..Len(parsers) : canHandle(parsers[i], file)

\* The files for which analyzeProject selected a parser.
Dispatched ==
    {parseLog[i].file : i \in 1..Len(parseLog)}
        \cup {errorLog[i].file : i \in 1..Len(errorLog)}

\* C8: the files handed to a parser are exactly the traversed files that a
\* parser of the registry accepts, each handed to the parser
\* getParserForFile selects.
C8_DispatchesRecognized ==
    apc = "returned" =>
        /\ Dispatched = {files[i] : i \in {k \in 1..Len(files) : Recognized(files[k])}}
        /\ \A i \in 1..Len(parseLog) :
               parseLog[i].parser = getParserForFile(parsers, parseLog[i].file).name

(***************************************************************************)
(* Properties of ParserRegistry.                                           *)
(***************************************************************************)
\* The indices of the parsers of ps that accept the path.
Accepting(ps, path) == {i \in 1..Len(ps) : canHandle(ps[i], path)}

\* The accepting parser of lowest index, and Undefined when there is none.
LowestAccepting(ps, path) ==
    LET acc == Accepting(ps, path)
    IN  IF acc = {} THEN Undefined
        ELSE ps[CHOOSE i \in acc : \A j \in acc : i <= j]

\* C9: getParserForFile returns the accepting parser of lowest index, and no
\* parser exactly when no registered parser accepts the path.
C9_FirstRegisteredWins ==
    /\ \A path \in QueryPaths :
           /\ getParserForFile(parsers, path) = LowestAccepting(parsers, path)
           /\ getParserForFile(parsers, path) = Undefined
                 <=> Accepting(parsers, path) = {}
    /\ lookedUp.parser
         = LowestAccepting(SubSeq(parsers, 1, lookedUp.size), lookedUp.path)

\* C9 witness: a lookup of a .ts path, made when a registered parser accepted
\* it too, returned the TypeScript parser.
C9_Witness ==
    /\ lookedUp.path = "/p/a.ts"
    /\ lookedUp.parser = TypeScriptParser
    /\ \E i \in 4..lookedUp.size : canHandle(parsers[i], lookedUp.path)

\* C10: the registry is the three initial parsers followed by the registered
\* ones in call order, and a registration changes the answer of
\* getParserForFile for no path that a parser accepted before it.
C10_RegistryAppendOnly ==
    /\ [](parsers = InitialParsers \o registered)
    /\ [][\A path \in QueryPaths :
             getParserForFile(parsers, path) # Undefined =>
                 getParserForFile(parsers', path) = getParserForFile(parsers, path)]_vars

\* C10 witness: two parsers were registered, the one that overlaps the
\* TypeScript parser first, and .ts files still go to the TypeScript parser.
C10_Witness ==
    /\ Len(registered) = 2
    /\ registered[1] = LegacyTsParser
    /\ registered[2] = MarkdownParser
    /\ getParserForFile(parsers, "/p/a.ts") = TypeScriptParser
    /\ getParserForFile(parsers, "/p/e.md") = MarkdownParser

(***************************************************************************)
(* Properties of listFilesRecursively.                                     *)
(***************************************************************************)
Range(seq) == {seq[i] : i \in 1..Len(seq)}

RECURSIVE Nodes(_, _, _)
\* Every entry below dirPath, with its path, its kind, and whether it is or
\* lies below a directory with an ignored name.
Nodes(dirPath, list, below) ==
    IF list = <<>> THEN {}
    ELSE LET e == Head(list)
             path == dirPath \o "/" \o e.name
             ign == below \/ (e.isDirectory /\ e.name \in IGNORED_DIRS)
         IN  {[path |-> path, isDirectory |-> e.isDirectory, ignored |-> ign,
               name |-> e.name]}
             \cup Nodes(path, e.entries, ign)
             \cup Nodes(dirPath, Tail(list), below)

\* C11: no directory named node_modules, .git, dist, .idea or .vscode is
\* read, nor any directory below one, and no path at or below such a
\* directory is in the list listFilesRecursively returns.
C11_IgnoredDirsPruned ==
    \A n \in Nodes(RootPath, tree, FALSE) :
        n.ignored => n.path \notin Range(files) /\ n.path \notin Range(scanned)

\* C11 witness: the traversal returned files from a tree that holds a file
\* inside an ignored directory.
C11_Witness ==
    /\ apc = "loop"
    /\ files # <<>>
    /\ \E n \in Nodes(RootPath, tree, FALSE) : n.ignored /\ ~n.isDirectory

RECURSIVE ReachableFiles(_, _)
\* The non-directory entries reachable from dirPath without passing through
\* an ignored directory, depth first, each directory in listing order.
ReachableFiles(dirPath, list) ==
    IF list = <<>> THEN <<>>
    ELSE LET e == Head(list)
             path == dirPath \o "/" \o e.name
             here == IF ~e.isDirectory THEN <<path>>
                     ELSE IF e.name \in IGNORED_DIRS THEN <<>>
                     ELSE ReachableFiles(path, e.entries)
         IN  here \o ReachableFiles(dirPath, Tail(list))

\* C12: listFilesRecursively returns every non-directory entry reachable
\* without passing through an ignored directory, once each, in depth-first
\* listing order; a regular file whose name is an ignored name is returned.
C12_AllFilesListed ==
    apc \in {"loop", "awaiting", "returned"} =>
        files = ReachableFiles(RootPath, tree)

(***************************************************************************)
(* Properties of analyzeProject: how a call ends.                          *)
(***************************************************************************)
\* C13: when the trimmed and normalized folder does not exist, the call has
\* thrown "Folder does not exist: <path>", no directory was read, no parser
\* was invoked and nothing was aggregated.
C13_MissingFolderThrowsFirst ==
    LET path == Normalize(Trim(folder))
    IN  /\ apc # "idle" /\ ~ExistsSync(path) =>
              /\ apc = "thrown"
              /\ outcome = [kind |-> "thrown",
                            message |-> "Folder does not exist: " \o path]
              /\ scanned = <<>>
              /\ files = <<>>
              /\ parseLog = <<>> /\ inFlight = {}
              /\ analysisResult = NoResult
        /\ apc # "idle" /\ folder = "/q " =>
              outcome = [kind |-> "thrown", message |-> "Folder does not exist: /q"]

\* C13 witness: analyzeProject("/q ") has thrown while /p holds entries.
C13_Witness ==
    /\ apc = "thrown"
    /\ folder = "/q "
    /\ tree # <<>>

StartsWith(str, prefix) ==
    Len(str) >= Len(prefix) /\ SubSeq(str, 1, Len(prefix)) = prefix

\* C14: a call of analyzeProject that is over has returned an
\* AnalysisResult or has thrown the "Folder does not exist" error, and
\* nothing else.
C14_OnlyTwoEndings ==
    apc \in {"returned", "thrown"} =>
        \/ apc = "returned" /\ outcome.kind = "returned"
        \/ /\ apc = "thrown" /\ outcome.kind = "thrown"
           /\ StartsWith(outcome.message, "Folder does not exist")

(***************************************************************************)
(* Properties of the loop of analyzeProject.                               *)
(***************************************************************************)
\* The file at position i of codeFiles was parsed, or its failure was logged.
Handled(i) ==
    \/ \E k \in 1..Len(parseLog) : parseLog[k].file = codeFiles[i] /\ parseLog[k].ok
    \/ \E k \in 1..Len(errorLog) : errorLog[k].file = codeFiles[i]

\* C15: at most one parseFile call is pending, and while the parse of a
\* file is pending every file before it was handled: its result is merged
\* into the aggregate or its failure went through the catch block.
C15_OneParseAtATime ==
    /\ Cardinality(inFlight) <= 1
    /\ \A j \in inFlight :
           /\ j = fileIdx
           /\ apc = "awaiting"
           /\ \A i \in 1..(j - 1) : Handled(i)
           /\ analysisResult.functions
                = Flatten([k \in 1..Len(Succeeded) |-> FunctionsOf(Succeeded[k].result)])
           /\ analysisResult.classes
                = Flatten([k \in 1..Len(Succeeded) |-> ClassesOf(Succeeded[k].result)])
    /\ apc \in {"returned", "thrown"} => inFlight = {}

\* C15 witness: the parse of the second file is pending after the first
\* file was parsed and merged.
C15_Witness ==
    /\ apc = "awaiting"
    /\ inFlight = {2}
    /\ Len(parseLog) = 1
    /\ parseLog[1].ok
    /\ analysisResult.functions # <<>>

(***************************************************************************)
(* Properties of the class splitting of chunkCodebase.                     *)
(***************************************************************************)
RECURSIVE SumTokens(_)
SumTokens(methods) ==
    IF methods = <<>> THEN 0
    ELSE methodTokens(Head(methods)) + SumTokens(Tail(methods))

CeilDiv(a, b) == (a + b - 1) \div b

\* The step of the class loop that handles an oversized class.
SplitsClass ==
    /\ pc = "classLoop"
    /\ idx <= Len(context.classes)
    /\ idx' = idx + 1
    /\ clsTokens(context.classes[idx]) > maxChunkSize

\* The records that step pushed.
Pushed == SubSeq(currentChunk', Len(currentChunk) + 1, Len(currentChunk'))

\* C16 as stated: an oversized class is emitted as exactly
\* ceil(totalMethodSize / maxChunkSize) partial-class records.
C16_PartCountIsCeil ==
    [][SplitsClass =>
          Len(Pushed) = CeilDiv(SumTokens(context.classes[idx].methods), maxChunkSize)]_vars

\* C16 amended: an oversized class without methods is emitted as no record;
\* one with methods as at least one and at most (number of methods + 1)
\* records; and when each of its methods fits in maxChunkSize by itself, as
\* at least ceil(totalMethodSize / maxChunkSize) and at most (number of
\* methods) records.
C16_PartCountBounds ==
    [][SplitsClass =>
          LET methods == context.classes[idx].methods
              n == Len(Pushed)
          IN  /\ methods = <<>> => n = 0
              /\ methods # <<>> => 1 <= n /\ n <= Len(methods) + 1
              /\ (\A k \in 1..Len(methods) : methodTokens(methods[k]) <= maxChunkSize)
                    => /\ CeilDiv(SumTokens(methods), maxChunkSize) <= n
                       /\ n <= Len(methods)]_vars

\* C16 witness: a class of three methods, 91 tokens of methods, was split
\* into three parts under a budget of 70.
C16_Witness ==
    /\ pc \in {"classLoop", "return", "done"}
    /\ maxChunkSize = 70
    /\ \E k \in 3..Len(currentChunk) :
          /\ "note" \in DOMAIN currentChunk[k]
          /\ currentChunk[k].note = NoteOf(3, 3)
          /\ currentChunk[k - 2].methods = <<MethodSmall>>
          /\ currentChunk[k - 1].methods = <<MethodLarge>>
          /\ currentChunk[k].methods = <<MethodSmall>>

\* C17: the methods lists of the partial-class records of an oversized
\* class, concatenated in part order, are the methods list of the class; the
\* records are numbered Part 1/N to Part N/N and keep the other fields.
C17_PartsConcatenateToMethods ==
    [][SplitsClass =>
          LET cls == context.classes[idx]
              n == Len(Pushed)
          IN  /\ Flatten([k \in 1..n |-> Pushed[k].methods]) = cls.methods
              /\ \A k \in 1..n :
                    /\ Pushed[k].note = NoteOf(k, n)
                    /\ \A f \in DOMAIN cls \ {"methods"} : Pushed[k][f] = cls[f]]_vars

\* C17 witness: a class was split into two parts, each holding methods.
C17_Witness ==
    /\ pc \in {"classLoop", "return", "done"}
    /\ \E k \in 2..Len(currentChunk) :
          /\ "note" \in DOMAIN currentChunk[k]
          /\ currentChunk[k].note = NoteOf(2, 2)
          /\ currentChunk[k - 1].note = NoteOf(1, 2)
          /\ currentChunk[k - 1].methods = <<MethodSmall, MethodSmall>>
          /\ currentChunk[k].methods = <<MethodLarge>>

(***************************************************************************)
(* chunkCodebase and its argument.                                         *)
(***************************************************************************)
\* C18: no step of chunkCodebase changes its argument: the context, its
\* functions and classes arrays and every entity in them stay as they were,
\* also when the body of a function is elided or a class is split.
C18_InputNotMutated ==
    [][context' = context /\ maxChunkSize' = maxChunkSize]_vars

\* C18 witness: the call is over, it emitted a function with the body elided
\* and a partial class, and the argument still holds the function with its
\* body and the class with all its methods.
C18_Witness ==
    /\ pc = "done"
    /\ HasFunctions(context) /\ HasClasses(context)
    /\ \E i \in 1..Len(context.functions) :
          /\ context.functions[i].body = LongBody
          /\ \E c \in 1..Len(result) : \E j \in 1..Len(FunctionsOf(result[c])) :
                result[c].functions[j] = funcWithoutBody(context.functions[i])
    /\ \E i \in 1..Len(context.classes) :
          /\ Len(context.classes[i].methods) = 2
          /\ \E c \in 1..Len(result) : \E j \in 1..Len(ClassesOf(result[c])) :
                /\ "note" \in DOMAIN result[c].classes[j]
                /\ Len(result[c].classes[j].methods) = 1

(***************************************************************************)
(* Properties of analyzeCode.                                              *)
(***************************************************************************)
\* C19: for a source text declaring one named function, analyzeCode returns
\* one function entry; its name is the declared name, its parameters are the
\* parameter names as strings (compared as JSON text), startLine and endLine
\* are fields of the entry, and its filePath is the filePath argument.
C19_SimpleFunctionShape ==
    (/\ cpc = "done" /\ code.text # "" /\ codePath # ""
     /\ Len(code.functions) = 1 /\ code.functions[1].name # "")
    => /\ Len(codeResult.functions) = 1
       /\ LET fn == codeResult.functions[1]
              decl == code.functions[1]
          IN  /\ fn.name = decl.name
              /\ JsonParameters(fn.parameters)
                   = JsonArray([k \in 1..Len(decl.parameters) |->
                                  JsonString(decl.parameters[k].name)])
              /\ {"startLine", "endLine", "filePath"} \subseteq DOMAIN fn
              /\ fn.startLine \in Nat /\ fn.endLine \in Nat
              /\ fn.filePath = codePath

(***************************************************************************)
(* The chunks chunkCodebase emits from its two packings.                   *)
(***************************************************************************)
Max(a, b) == IF a >= b THEN a ELSE b

\* C20: the i-th emitted chunk carries the i-th function group together
\* with the i-th class group, so there are as many chunks as the larger of
\* the two group counts.
C20_MergedPositionally ==
    (pc = "done" /\ chunks # <<>>) =>
        /\ Len(result) = Max(Len(functionChunks), Len(classChunks))
        /\ \A i \in 1..Len(result) :
              /\ i <= Len(functionChunks) => result[i].functions = functionChunks[i]
              /\ i <= Len(classChunks) => result[i].classes = classChunks[i]

(***************************************************************************)
(* Properties of the packing loops of chunkCodebase.                       *)
(***************************************************************************)
\* The step of the function loop that handles an oversized function.
ElidesFunction ==
    /\ pc = "functionLoop"
    /\ idx <= Len(context.functions)
    /\ idx' = idx + 1
    /\ funcTokens(context.functions[idx]) > maxChunkSize

\* The function chunks as emitted: the closed ones and the running one.
FunctionGroups ==
    IF pc = "functionLoop" THEN Append(functionChunks, currentChunk)
    ELSE functionChunks

\* The step that handles an oversized function pushes its copy, with
\* `placeholder` as the body, to the end of the running chunk and closes no
\* chunk.
PushesCopy(placeholder) ==
    ElidesFunction =>
        /\ currentChunk' = Append(currentChunk,
               [context.functions[idx] EXCEPT !.body = placeholder])
        /\ functionChunks' = functionChunks

\* Every oversized function handled so far has its copy, with `placeholder`
\* as the body, in a function chunk.
CopiesKept(placeholder) ==
    (pc \in {"functionLoop", "classes", "classLoop", "return", "done"}
     /\ HasFunctions(context)) =>
        \A i \in 1..Len(context.functions) :
           (funcTokens(context.functions[i]) > maxChunkSize
            /\ (pc = "functionLoop" => i < idx)) =>
              \E g \in 1..Len(FunctionGroups) : \E j \in 1..Len(FunctionGroups[g]) :
                 FunctionGroups[g][j]
                   = [context.functions[i] EXCEPT !.body = placeholder]

\* C21 as stated: the copy of an oversized function has the body
\* "body too large, truncated", every other field unchanged, and is pushed
\* to the running function chunk without closing it; it is never dropped.
C21_PlaceholderAsStated ==
    /\ [][PushesCopy("body too large, truncated")]_vars
    /\ []CopiesKept("body too large, truncated")

\* C21 amended: the same with the body "/* Body too large, truncated */".
C21_OversizedFunctionElided ==
    /\ [][PushesCopy("/* Body too large, truncated */")]_vars
    /\ []CopiesKept("/* Body too large, truncated */")

\* C21 witness: the body-elided copy of a large function was pushed behind a
\* small function, into the chunk that was running.
C21_Witness ==
    /\ pc = "functionLoop"
    /\ functionChunks = <<>>
    /\ Len(currentChunk) = 2
    /\ currentChunk[1] = FuncSmall
    /\ currentChunk[2] = [FuncLarge EXCEPT !.body = "/* Body too large, truncated */"]
    /\ currentSize = funcTokens(FuncSmall)

\* C22: every method group of a decomposed class has a total estimated
\* method size within maxChunkSize, except a group that is a single method
\* larger than maxChunkSize.
C22_MethodGroupsWithinBudget ==
    [][SplitsClass =>
          \A k \in 1..Len(Pushed) :
              \/ SumTokens(Pushed[k].methods) <= maxChunkSize
              \/ /\ Len(Pushed[k].methods) = 1
                 /\ methodTokens(Pushed[k].methods[1]) > maxChunkSize]_vars

\* C22 witness: under a budget of 50 a class was split into a group of two
\* small methods (40 tokens) and a group that is one method of 51 tokens.
C22_Witness ==
    /\ pc \in {"classLoop", "return", "done"}
    /\ maxChunkSize = 50
    /\ \E k \in 2..Len(currentChunk) :
          /\ "note" \in DOMAIN currentChunk[k] /\ "note" \in DOMAIN currentChunk[k - 1]
          /\ currentChunk[k - 1].methods = <<MethodSmall, MethodSmall>>
          /\ currentChunk[k].methods = <<MethodLarge>>
          /\ SumTokens(currentChunk[k - 1].methods) = 40
          /\ SumTokens(currentChunk[k].methods) = 51

\* C23: no partial-class record has an empty methods list: a method group
\* is closed only when it is non-empty.
C23_NoEmptyMethodGroup ==
    [][SplitsClass => \A k \in 1..Len(Pushed) : Pushed[k].methods # <<>>]_vars

\* C24: the records of a decomposed class keep its name, properties,
\* documentation and location, are annotated "Part i/N of large class" with
\* i from 1 to N in order, and are all appended, consecutively, to the class
\* chunk that is running when the class is reached, which is not closed.
C24_PartialRecordsAnnotated ==
    [][SplitsClass =>
          LET cls == context.classes[idx]
              n == Len(currentChunk') - Len(currentChunk)
          IN  /\ n >= 0
              /\ SubSeq(currentChunk', 1, Len(currentChunk)) = currentChunk
              /\ classChunks' = classChunks
              /\ \A i \in 1..n :
                    LET rec == currentChunk'[Len(currentChunk) + i]
                    IN  /\ DOMAIN rec = DOMAIN cls \cup {"note"}
                        /\ rec.name = cls.name
                        /\ rec.properties = cls.properties
                        /\ rec.documentation = cls.documentation
                        /\ rec.location = cls.location
                        /\ rec.note = "Part " \o ToString(i) \o "/" \o ToString(n)
                                        \o " of large class"]_vars

\* C24 witness: the running class chunk holds a whole class followed by the
\* two records of the class that was split next.
C24_Witness ==
    /\ pc = "classLoop"
    /\ classChunks = <<>>
    /\ Len(currentChunk) = 3
    /\ "note" \notin DOMAIN currentChunk[1]
    /\ "note" \in DOMAIN currentChunk[2] /\ "note" \in DOMAIN currentChunk[3]
    /\ currentChunk[2].note = "Part 1/2 of large class"
    /\ currentChunk[3].note = "Part 2/2 of large class"
    /\ currentChunk[2].location = context.classes[2].location

\* An entry of a chunk that is the body-elided copy of an oversized function
\* or a partial-class record.
IsReduced(e) ==
    IF "note" \in DOMAIN e THEN TRUE
    ELSE IF "body" \in DOMAIN e THEN e.body = "/* Body too large, truncated */"
    ELSE FALSE

\* The estimated size of an entity (a class has methods, a function has not).
EntityTokens(e) == IF "methods" \in DOMAIN e THEN clsTokens(e) ELSE funcTokens(e)

\* The entities of a chunk that were packed whole.
Packed(group) == SelectSeq(group, LAMBDA e : ~IsReduced(e))

RECURSIVE TotalTokens(_)
TotalTokens(group) ==
    IF group = <<>> THEN 0
    ELSE EntityTokens(Head(group)) + TotalTokens(Tail(group))

\* The running total of a chunk: the sizes of the entities packed whole.
RunningTotal(group) == TotalTokens(Packed(group))

\* The groups of the packing under way: the closed ones, then the running one.
GroupsSoFar ==
    IF pc = "functionLoop" THEN Append(functionChunks, currentChunk)
    ELSE IF pc = "classLoop" THEN Append(classChunks, currentChunk)
    ELSE <<>>

\* A step of either loop on an entity that is not oversized.
PacksEntity ==
    /\ pc \in {"functionLoop", "classLoop"}
    /\ idx' = idx + 1
    /\ IF pc = "functionLoop"
       THEN idx <= Len(context.functions)
            /\ funcTokens(context.functions[idx]) <= maxChunkSize
       ELSE idx <= Len(context.classes)
            /\ clsTokens(context.classes[idx]) <= maxChunkSize

\* C25: a running chunk is closed exactly when it is non-empty and its
\* running total plus the size of the next entity exceeds maxChunkSize; no
\* closed group is empty; and for two consecutive groups the running total
\* of the first plus the size of the first entity packed whole into the
\* second exceeds maxChunkSize.
C25_GreedyPacking ==
    /\ [][PacksEntity =>
            LET e == IF pc = "functionLoop" THEN context.functions[idx]
                     ELSE context.classes[idx]
                closes == Len(currentChunk) > 0
                          /\ RunningTotal(currentChunk) + EntityTokens(e) > maxChunkSize
            IN  /\ closes => /\ currentChunk' = <<e>>
                             /\ IF pc = "functionLoop"
                                THEN functionChunks' = Append(functionChunks, currentChunk)
                                ELSE classChunks' = Append(classChunks, currentChunk)
                /\ ~closes => /\ currentChunk' = Append(currentChunk, e)
                              /\ functionChunks' = functionChunks
                              /\ classChunks' = classChunks]_vars
    /\ [](/\ \A g \in 1..Len(functionChunks) : functionChunks[g] # <<>>
          /\ \A g \in 1..Len(classChunks) : classChunks[g] # <<>>
          /\ \A g \in 1..(Len(GroupsSoFar) - 1) :
                /\ Packed(GroupsSoFar[g + 1]) # <<>>
                /\ RunningTotal(GroupsSoFar[g])
                     + EntityTokens(Packed(GroupsSoFar[g + 1])[1]) > maxChunkSize)

\* C25 witness: under a budget of 70 two functions of 33 tokens fill the
\* first chunk and the third one opened the second chunk.
C25_Witness ==
    /\ pc = "functionLoop"
    /\ maxChunkSize = 70
    /\ functionChunks = <<(<<FuncSmall, FuncSmall>>)>>
    /\ currentChunk = <<FuncSmall>>

\* C29: in both loops the running size is the sum of the estimated sizes of
\* the entities packed whole into the running chunk; a body-elided function
\* or the records of a split class are appended without changing the running
\* size and without closing the running chunk.
C29_RunningSizeIsSum ==
    /\ [](pc \in {"functionLoop", "classLoop"} =>
              currentSize = RunningTotal(currentChunk))
    /\ [][(ElidesFunction \/ SplitsClass) =>
              /\ currentSize' = currentSize
              /\ functionChunks' = functionChunks
              /\ classChunks' = classChunks
              /\ SubSeq(currentChunk', 1, Len(currentChunk)) = currentChunk]_vars

\* C29 witness: the running class chunk holds a class packed whole and
\* partial-class records, and the running size is the size of that class.
C29_Witness ==
    /\ pc = "classLoop"
    /\ Len(currentChunk) >= 2
    /\ ~IsReduced(currentChunk[1])
    /\ \A k \in 2..Len(currentChunk) : IsReduced(currentChunk[k])
    /\ currentSize = clsTokens(currentChunk[1])
    /\ currentSize > 0

(***************************************************************************)
(* C26                                                                     *)
(***************************************************************************)
\* sendQuery has settled a response that came without a response format.
SettledWithoutFormat ==
    /\ vpc = "done"
    /\ validated.kind # "none"
    /\ ~Truthy(responseFormat)

ItemsOf(list) == {list.items[i] : i \in 1..Len(list.items)}

AnalysisKeys == {"functions", "classes", "modules"}

\* item is an object that spells out every key of keys
HasKeys(item, keys) == item.t = "object" /\ keys \subseteq DOMAIN item.fields

\* item is an object whose every key of keys holds a truthy value
HasValues(item, keys) ==
    /\ item.t = "object"
    /\ \A k \in keys :
        /\ k \in DOMAIN item.fields
        /\ item.fields[k] \notin {Null, Str("")}

\* the items under key of the analysis object, none when it is no array
Listed(analysis, key) ==
    IF HasKeys(analysis, {key}) /\ analysis.fields[key].t = "array"
    THEN ItemsOf(analysis.fields[key])
    ELSE {}

FunctionsAndClassesComplete(analysis) ==
    /\ \A f \in Listed(analysis, "functions") :
        /\ HasKeys(f, {"name", "description", "parameters", "returnType"})
        /\ f.fields.parameters.t = "array"
    /\ \A c \in Listed(analysis, "classes") :
        /\ HasKeys(c, {"name", "methods", "properties"})
        /\ c.fields.methods.t = "array"
        /\ c.fields.properties.t = "array"

\* (a) of the claim
ComponentsAsStated(resp) ==
    /\ HasKeys(resp, {"components"})
    /\ resp.fields.components.t = "array"
    /\ \A c \in ItemsOf(resp.fields.components) :
        HasKeys(c, {"type", "name", "description"})

\* (b) of the claim
AnalysisAsStated(resp) ==
    /\ HasKeys(resp, {"analysis"})
    /\ resp.fields.analysis.t = "object"
    /\ \E k \in AnalysisKeys : Listed(resp.fields.analysis, k) # {}
    /\ FunctionsAndClassesComplete(resp.fields.analysis)
    /\ \A m \in Listed(resp.fields.analysis, "modules") :
        HasKeys(m, {"name", "description"})

\* C26 as stated: without a response format a response is accepted exactly
\* when it has a components array whose items all have type, name and
\* description, or an analysis object with a non-empty list and complete
\* functions, classes and modules; any other response is rejected as an
\* invalid response structure.
C26_AcceptedIffAsStated ==
    SettledWithoutFormat =>
        /\ validated.kind = "returned"
             <=> ComponentsAsStated(response) \/ AnalysisAsStated(response)
        /\ validated.kind # "returned" =>
             validated = [kind |-> "thrown",
                          message |-> "Failed to parse OpenAI response as JSON: Invalid response structure"]

\* (a) with non-empty values
ComponentsWithValues(resp) ==
    /\ HasKeys(resp, {"components"})
    /\ resp.fields.components.t = "array"
    /\ \A c \in ItemsOf(resp.fields.components) :
        HasValues(c, {"type", "name", "description"})

\* (b) when components is no array, with every list an array, non-empty
\* module values and module import lists that are arrays
AnalysisWithoutComponents(resp) ==
    /\ ~(HasKeys(resp, {"components"}) /\ resp.fields.components.t = "array")
    /\ HasKeys(resp, {"analysis"})
    /\ resp.fields.analysis.t = "object"
    /\ \A k \in AnalysisKeys :
        HasValues(resp.fields.analysis, {k}) =>
            resp.fields.analysis.fields[k].t = "array"
    /\ \E k \in AnalysisKeys : Listed(resp.fields.analysis, k) # {}
    /\ FunctionsAndClassesComplete(resp.fields.analysis)
    /\ \A m \in Listed(resp.fields.analysis, "modules") :
        /\ HasValues(m, {"name", "description"})
        /\ \A k \in {"imports", "exports", "dependencies"} :
            HasValues(m, {k}) => m.fields[k].t = "array"

\* C26, amended: without a response format a response is accepted exactly
\* when its components is an array whose items all have non-empty type,
\* name and description, or its components is no array and its analysis is
\* an object whose functions, classes and modules are arrays where given,
\* one of them non-empty, with complete functions and classes and modules
\* that have a non-empty name and description and arrays for the imports,
\* exports and dependencies they give; any other response is rejected as an
\* invalid response structure.
C26_AcceptedIffComponentsFirst ==
    SettledWithoutFormat =>
        /\ validated.kind = "returned"
             <=> ComponentsWithValues(response)
                 \/ AnalysisWithoutComponents(response)
        /\ validated.kind # "returned" =>
             validated = [kind |-> "thrown",
                          message |-> "Failed to parse OpenAI response as JSON: Invalid response structure"]

\* A response whose components is no array was accepted for its analysis,
\* which lists one valid module.
C26_Witness ==
    /\ SettledWithoutFormat
    /\ validated.kind = "returned"
    /\ Get(response, "components") = Str("none")
    /\ Listed(Get(response, "analysis"), "modules") = {ValidModule}
    /\ Listed(Get(response, "analysis"), "functions") = {}

(***************************************************************************)
(* C27                                                                     *)
(***************************************************************************)
\* C27: whatever the content of the .yml/.yaml file, YAMLParser.parseFile
\* resolves with empty functions and empty classes arrays and never fails.
C27_YamlNeverFails ==
    /\ parseFileArg.parser = "YAMLParser"
    /\ parseFileArg.content # MissingFile
    /\ ppc = "done"
    => parseFileResult =
         [kind |-> "resolved", value |-> [functions |-> <<>>, classes |-> <<>>]]

(***************************************************************************)
(* C28                                                                     *)
(***************************************************************************)
\* C28: the functions the TypeScript parser returns for a file are in
\* declaration order: of any two returned functions the one that starts
\* earlier in the source comes earlier in the list.
C28_FunctionsInDeclarationOrder ==
    /\ parseFileArg.parser = "TypeScriptParser"
    /\ ppc = "done"
    /\ parseFileResult.kind = "resolved"
    => \A i, j \in 1..Len(parseFileResult.value.functions) :
          i < j =>
            parseFileResult.value.functions[i].location.startLine
              < parseFileResult.value.functions[j].location.startLine

(***************************************************************************)
(* C30                                                                     *)
(***************************************************************************)
\* The calls analyzeChunkedCodebase makes when no query fails, once the
\* chunks are known.
ExpectedQueries ==
    <<[kind |-> "overview", context |-> context]>>
    \o [k \in 1..Len(result) |-> [kind |-> "chunk", context |-> result[k]]]
    \o <<[kind |-> "dependencies", context |-> context]>>

\* chunkCodebase has returned to analyzeChunkedCodebase.
ChunksKnown == qpc \in {"chunk", "dependencies", "done"} /\ Len(queryLog) > 1

\* C30: the sendQuery calls are issued one at a time in a fixed order, the
\* overview on the full context, one query per chunk of chunkCodebase(context)
\* in chunk order, the dependency graph on the full context; a query is
\* issued only when every earlier one has resolved, and once a query has
\* failed no further query is issued and the call rejects with no result.
C30_QueriesOneAtATimeInOrder ==
    /\ \A k \in 1..Len(queryLog) :
        k < Len(queryLog) => queryLog[k].state = "resolved"
    /\ Len(queryLog) >= 1 =>
        /\ queryLog[1].kind = "overview"
        /\ queryLog[1].context = context
    /\ ~ChunksKnown => Len(queryLog) <= 1
    /\ ChunksKnown =>
        /\ Len(queryLog) <= Len(ExpectedQueries)
        /\ \A k \in 1..Len(queryLog) :
            /\ queryLog[k].kind = ExpectedQueries[k].kind
            /\ queryLog[k].context = ExpectedQueries[k].context
    /\ (\E k \in 1..Len(queryLog) : queryLog[k].state = "rejected") =>
        /\ qpc = "done"
        /\ queryOutcome.kind = "rejected"
    /\ queryOutcome.kind = "returned" =>
        /\ pc = "done"
        /\ Len(queryLog) = Len(result) + 2
        /\ \A k \in 1..Len(queryLog) : queryLog[k].state = "resolved"
    /\ qpc = "done" => queryOutcome.kind \in {"returned", "rejected"}

\* A context with an oversized function and a class gave two different
\* chunks; the four queries were made and resolved in turn and the call
\* returned.
C30_Witness ==
    /\ qpc = "done"
    /\ queryOutcome.kind = "returned"
    /\ Len(result) = 2
    /\ Len(queryLog) = 4
    /\ queryLog[2].context = result[1]
    /\ queryLog[3].context = result[2]
    /\ result[1] # result[2]
    /\ result[1].functions[1].body = TruncatedBody
    /\ Len(queryOutcome.value.components) = 2

====
